---- MODULE Spec2Model ----
(***************************************************************************)
(* The schema-driven document state engine of agent_recup_info:           *)
(* JsonManager (agent/json_manager.py) and the tool layer (agent/tools.py) *)
(* over a file system that holds the template and one JSON file per        *)
(* session.                                                                *)
(*                                                                         *)
(* JSON values are tagged records:                                         *)
(*   [kind |-> "null"]            None                                     *)
(*   [kind |-> "bool", b]         True / False                             *)
(*   [kind |-> "int", n]          int                                      *)
(*   [kind |-> "float", num, scale]   num / 10^scale, scale >= 1           *)
(*   [kind |-> "str", s]          str, s its characters                    *)
(*   [kind |-> "list", items]     list (a sequence of values)              *)
(*   [kind |-> "dict", keys, m]   dict: keys in insertion order, m the map *)
(* Strings that arrive from outside (paths, session ids, the text of a     *)
(* value) are sequences of one-character strings, so that parsing is       *)
(* computed character by character.                                        *)
(***************************************************************************)
EXTENDS Integers, Sequences, FiniteSets, TLC

(***************************************************************************)
(* Bounds of the model.                                                    *)
(***************************************************************************)
MaxOps == 3        \* JsonManager operations asked for by the caller of Spec
MaxConcOps == 3    \* the same for the concurrent callers of SpecConc
MaxAnyIdOps == 2   \* the same for the caller of SpecAnyId
MaxBatch == 2      \* updates in one set_value
MaxReadOps == 3    \* the same as MaxOps for the caller of SpecRead
MaxItems == 50     \* items of the list in the sessions of SpecProgress
MaxProgressOps == 1  \* calls of get_progress by the caller of SpecProgress
MaxPathOps == 2    \* the same as MaxOps for the caller of SpecPath
MaxSnapOps == 3    \* the same as MaxConcOps for the threads of SpecSnap
MaxRoundTrips == 1 \* save_session then load_session by the caller of SpecRoundTrip
MaxAddOps == 3     \* the same as MaxOps for the caller of SpecAdd
MaxFlatOps == 3    \* JSONManager operations asked for by the caller of SpecFlat
MaxRequests == 3   \* HTTP requests sent to the app in SpecHttp
MaxBailOps == 3    \* update_value calls of ai_bail_agent in SpecBail
MaxClassOps == 3   \* JsonManager operations in SpecClass

(***************************************************************************)
(* JSON values.                                                            *)
(***************************************************************************)
JNull == [kind |-> "null"]
JBool(b) == [kind |-> "bool", b |-> b]
JInt(n) == [kind |-> "int", n |-> n]
JFloat(num, scale) == [kind |-> "float", num |-> num, scale |-> scale]
JStr(s) == [kind |-> "str", s |-> s]
JList(items) == [kind |-> "list", items |-> items]
JDict(keys, m) == [kind |-> "dict", keys |-> keys, m |-> m]

IsDict(v) == v.kind = "dict"
IsList(v) == v.kind = "list"
HasKey(d, k) == k \in DOMAIN d.m

\* A value as it arrives in an update: text still to be coerced.
Text(cs) == [kind |-> "text", cs |-> cs]

\* A Field object of the template.
Field(v, req, ty) ==
    JDict(<<"valeur", "requis", "type">>,
          [valeur |-> v, requis |-> JBool(req), type |-> JStr(ty)])

(***************************************************************************)
(* Characters and strings.                                                 *)
(***************************************************************************)
Digits == {"0", "1", "2", "3", "4", "5", "6", "7", "8", "9"}
DigitVal == [c \in Digits |->
    CASE c = "0" -> 0 [] c = "1" -> 1 [] c = "2" -> 2 [] c = "3" -> 3
      [] c = "4" -> 4 [] c = "5" -> 5 [] c = "6" -> 6 [] c = "7" -> 7
      [] c = "8" -> 8 [] c = "9" -> 9]

RECURSIVE Join(_)
Join(cs) == IF cs = <<>> THEN "" ELSE cs[1] \o Join(Tail(cs))

\* str.isdigit() on the model's alphabet (ASCII).
IsDigitStr(cs) == cs # <<>> /\ \A i \in 1..Len(cs) : cs[i] \in Digits

RECURSIVE DecVal(_)
DecVal(cs) == IF cs = <<>> THEN 0
              ELSE DecVal(SubSeq(cs, 1, Len(cs) - 1)) * 10 + DigitVal[cs[Len(cs)]]

\* Number of leading digits of cs.
RECURSIVE DigitRun(_)
DigitRun(cs) == IF cs # <<>> /\ cs[1] \in Digits THEN 1 + DigitRun(Tail(cs)) ELSE 0

\* str.split(sep) for a one-character separator: always at least one part.
RECURSIVE Split(_, _)
Split(cs, sep) ==
    IF \E i \in 1..Len(cs) : cs[i] = sep
    THEN LET i == CHOOSE j \in 1..Len(cs) :
                      cs[j] = sep /\ \A k \in 1..(j - 1) : cs[k] # sep
         IN <<SubSeq(cs, 1, i - 1)>> \o Split(SubSeq(cs, i + 1, Len(cs)), sep)
    ELSE <<cs>>

(***************************************************************************)
(* JsonManager._parse_path                                                 *)
(***************************************************************************)
\* A step of a parsed path: an int, or a str (its characters in cs, and the
\* same text as a string, which is what a dict is indexed with).
IntKey(n) == [int |-> n]
StrKey(cs) == [str |-> Join(cs), cs |-> cs]
IsIntKey(k) == "int" \in DOMAIN k

\* a _parse_path that leaves the brackets in the path
BracketsToDots_kept(cs) == cs

\* re.sub(r'\[(\d+)\]', r'.\1', path)
RECURSIVE BracketsToDots(_)
BracketsToDots(cs) ==
    IF cs = <<>> THEN <<>>
    ELSE LET d == DigitRun(Tail(cs)) IN
         IF cs[1] = "[" /\ d > 0 /\ Len(cs) >= d + 2 /\ cs[d + 2] = "]"
         THEN <<".">> \o SubSeq(cs, 2, d + 1)
                     \o BracketsToDots(SubSeq(cs, d + 3, Len(cs)))
         ELSE <<cs[1]>> \o BracketsToDots(Tail(cs))

_parse_path(path) ==
    LET parts == Split(BracketsToDots(path), ".")
    IN [i \in 1..Len(parts) |->
          IF IsDigitStr(parts[i]) THEN IntKey(DecVal(parts[i]))
          ELSE StrKey(parts[i])]

(***************************************************************************)
(* Results of the operations.  A result stands for the returned string:    *)
(* ok is TRUE for the "Done..." strings, tag names the message, index is   *)
(* the index the message carries (-1 when it carries none).                *)
(***************************************************************************)
Done == [ok |-> TRUE, tag |-> "Done", index |-> -1]
DoneAdded(i) == [ok |-> TRUE, tag |-> "Done. New item added at index", index |-> i]
DoneRemoved(i) == [ok |-> TRUE, tag |-> "Done. Item removed at index", index |-> i]
Error(tag) == [ok |-> FALSE, tag |-> tag, index |-> -1]

E_ExpectedInt == "Expected integer index for list"
E_ListIndex == "List index out of range"
E_KeyNotFound == "Key not found"
E_CannotNavigate == "Cannot navigate through"
E_TypeError == "TypeError"
E_IndexError == "list index out of range"
E_NotAList == "does not point to a list"
E_IndexRange == "Index out of range"
E_LastItem == "Cannot remove the last item from the list"
E_EmptyList == "Cannot add item - list is empty and no template provided"
E_InvalidUpdate == "Invalid update format"

(***************************************************************************)
(* JsonManager._navigate_to_parent                                         *)
(***************************************************************************)
\* The loop over keys[:-1]: err is "" when the loop ends normally, else the
\* exception raised; loc is the steps taken, node the object reached.
RECURSIVE NavigateLoop(_, _, _)
NavigateLoop(current, keys, loc) ==
    IF keys = <<>> THEN [err |-> "", loc |-> loc, node |-> current]
    ELSE LET key == keys[1] IN
         IF IsList(current) THEN
             IF ~IsIntKey(key) THEN [err |-> E_ExpectedInt, loc |-> loc, node |-> current]
             ELSE IF key.int < 0 \/ key.int >= Len(current.items)
                  THEN [err |-> E_ListIndex, loc |-> loc, node |-> current]
             ELSE NavigateLoop(current.items[key.int + 1], Tail(keys), Append(loc, key))
         ELSE IF IsDict(current) THEN
             IF IsIntKey(key) \/ ~HasKey(current, key.str)
             THEN [err |-> E_KeyNotFound, loc |-> loc, node |-> current]
             ELSE NavigateLoop(current.m[key.str], Tail(keys), Append(loc, key))
         ELSE [err |-> E_CannotNavigate, loc |-> loc, node |-> current]

_navigate_to_parent(data, keys) ==
    NavigateLoop(data, SubSeq(keys, 1, Len(keys) - 1), <<>>)

\* The tree in which the object reached from root by the steps loc is new
\* (an assignment through a reference into the loaded tree).
RECURSIVE Assign(_, _, _)
Assign(root, loc, new) ==
    IF loc = <<>> THEN new
    ELSE IF IsList(root)
         THEN [root EXCEPT !.items[loc[1].int + 1] = Assign(@, Tail(loc), new)]
         ELSE [root EXCEPT !.m[loc[1].str] = Assign(@, Tail(loc), new)]

\* cs occurs in text as a substring (str.__contains__).
IsSubstring(cs, text) ==
    \E i \in 0..(Len(text) - Len(cs)) : SubSeq(text, i + 1, i + Len(cs)) = cs

(***************************************************************************)
(* JsonManager.update_value, from the parse of the path to the decision to *)
(* save: res is the returned string, data the tree after the assignments,  *)
(* save tells whether save_session is reached.                             *)
(***************************************************************************)
K_valeur == StrKey(<<"v", "a", "l", "e", "u", "r">>)

\* parent[final_key] = value, whatever the target is
SetTarget_replacing(data, loc, final_key, target, value) ==
    Assign(data, Append(loc, final_key), value)

\* target["valeur"] = value when the target is a dict with "valeur", else
\* parent[final_key] = value.
SetTarget(data, loc, final_key, target, value) ==
    IF IsDict(target) /\ HasKey(target, "valeur")
    THEN Assign(data, loc \o <<final_key, K_valeur>>, value)
    ELSE Assign(data, Append(loc, final_key), value)

\* update_value that creates the final key when the mapping lacks it
update_value_creating(data, path, value) ==
    LET keys == _parse_path(path)
        nav == _navigate_to_parent(data, keys)
        parent == nav.node
        final_key == keys[Len(keys)]
        fail(tag) == [res |-> Error(tag), data |-> data, save |-> FALSE]
        done(new) == [res |-> Done, data |-> new, save |-> TRUE]
    IN IF nav.err # "" THEN fail(nav.err)
       ELSE IF IsList(parent) THEN
           IF ~IsIntKey(final_key) THEN fail(E_ExpectedInt)
           ELSE IF final_key.int < 0 \/ final_key.int >= Len(parent.items)
                THEN fail(E_ListIndex)
           ELSE done(SetTarget(data, nav.loc, final_key,
                               parent.items[final_key.int + 1], value))
       ELSE IF IsDict(parent) THEN
           IF IsIntKey(final_key) THEN fail(E_KeyNotFound)
           ELSE IF ~HasKey(parent, final_key.str)
           THEN done(Assign(data, nav.loc,
                            JDict(Append(parent.keys, final_key.str),
                                  (final_key.str :> value) @@ parent.m)))
           ELSE done(SetTarget(data, nav.loc, final_key,
                               parent.m[final_key.str], value))
       ELSE fail(E_TypeError)

update_value(data, path, value) ==
    LET keys == _parse_path(path)
        nav == _navigate_to_parent(data, keys)
        parent == nav.node
        final_key == keys[Len(keys)]
        fail(tag) == [res |-> Error(tag), data |-> data, save |-> FALSE]
        done(new) == [res |-> Done, data |-> new, save |-> TRUE]
    IN IF nav.err # "" THEN fail(nav.err)
       ELSE IF IsList(parent) THEN
           IF ~IsIntKey(final_key) THEN fail(E_ExpectedInt)
           ELSE IF final_key.int < 0 \/ final_key.int >= Len(parent.items)
                THEN fail(E_ListIndex)
           ELSE done(SetTarget(data, nav.loc, final_key,
                               parent.items[final_key.int + 1], value))
       ELSE IF IsDict(parent) THEN
           IF IsIntKey(final_key) \/ ~HasKey(parent, final_key.str)
           THEN fail(E_KeyNotFound)
           ELSE done(SetTarget(data, nav.loc, final_key,
                               parent.m[final_key.str], value))
       ELSE IF parent.kind = "str" THEN
           \* 'in' on a str is the substring test; indexing a str with a
           \* str raises TypeError
           IF IsIntKey(final_key) THEN fail(E_TypeError)
           ELSE IF ~IsSubstring(final_key.cs, parent.s) THEN fail(E_KeyNotFound)
           ELSE fail(E_TypeError)
       ELSE fail(E_TypeError)   \* 'in' on None, a bool or a number

(***************************************************************************)
(* JsonManager._create_empty_copy                                          *)
(***************************************************************************)
S_booleen == <<"b", "o", "o", "l", "e", "e", "n">>
S_nombre == <<"n", "o", "m", "b", "r", "e">>

\* obj.get("type") == ty
TypeIs(obj, ty) == HasKey(obj, "type") /\ obj.m["type"] = JStr(ty)

IsFieldObject(obj) == IsDict(obj) /\ HasKey(obj, "valeur") /\ HasKey(obj, "requis")

\* _create_empty_copy that resets every Field to "", whatever its type
RECURSIVE _create_empty_copy_untyped(_)
_create_empty_copy_untyped(obj) ==
    IF IsDict(obj) THEN
        IF IsFieldObject(obj) THEN [obj EXCEPT !.m["valeur"] = JStr(<<>>)]
        ELSE [obj EXCEPT !.m = [k \in DOMAIN obj.m |-> _create_empty_copy_untyped(obj.m[k])]]
    ELSE IF IsList(obj)
    THEN JList([i \in 1..Len(obj.items) |-> _create_empty_copy_untyped(obj.items[i])])
    ELSE obj

RECURSIVE _create_empty_copy(_)
_create_empty_copy(obj) ==
    IF IsDict(obj) THEN
        IF HasKey(obj, "valeur") /\ HasKey(obj, "requis")
        THEN IF TypeIs(obj, S_booleen) THEN [obj EXCEPT !.m["valeur"] = JNull]
             ELSE IF TypeIs(obj, S_nombre) THEN [obj EXCEPT !.m["valeur"] = JNull]
             ELSE [obj EXCEPT !.m["valeur"] = JStr(<<>>)]
        ELSE [obj EXCEPT !.m = [k \in DOMAIN obj.m |-> _create_empty_copy(obj.m[k])]]
    ELSE IF IsList(obj) THEN
        JList([i \in 1..Len(obj.items) |-> _create_empty_copy(obj.items[i])])
    ELSE obj

(***************************************************************************)
(* JsonManager.add_list_item and remove_list_item                          *)
(***************************************************************************)
\* The loop "for key in keys" of add_list_item, remove_list_item and
\* get_list_length: a list is indexed without a range check, so that an
\* index past the end raises IndexError, caught by "except Exception".
RECURSIVE NavigateToList(_, _, _)
NavigateToList(current, keys, loc) ==
    IF keys = <<>> THEN [err |-> "", loc |-> loc, node |-> current]
    ELSE LET key == keys[1] IN
         IF IsList(current) THEN
             IF ~IsIntKey(key) THEN [err |-> E_ExpectedInt, loc |-> loc, node |-> current]
             ELSE IF key.int >= Len(current.items)
                  THEN [err |-> E_IndexError, loc |-> loc, node |-> current]
             ELSE NavigateToList(current.items[key.int + 1], Tail(keys), Append(loc, key))
         ELSE IF IsDict(current) THEN
             IF IsIntKey(key) \/ ~HasKey(current, key.str)
             THEN [err |-> E_KeyNotFound, loc |-> loc, node |-> current]
             ELSE NavigateToList(current.m[key.str], Tail(keys), Append(loc, key))
         ELSE [err |-> E_CannotNavigate, loc |-> loc, node |-> current]

\* item_template = None
NoTemplate == JNull

\* add_list_item that never reads item_template
add_list_item_copying(data, list_path, item_template) ==
    LET nav == NavigateToList(data, _parse_path(list_path), <<>>)
        current == nav.node
        fail(tag) == [res |-> Error(tag), data |-> data, save |-> FALSE]
    IN IF nav.err # "" THEN fail(nav.err)
       ELSE IF ~IsList(current) THEN fail(E_NotAList)
       ELSE IF Len(current.items) > 0
       THEN [res |-> DoneAdded(Len(current.items)),
             data |-> Assign(data, nav.loc,
                             JList(Append(current.items,
                                          _create_empty_copy(current.items[1])))),
             save |-> TRUE]
       ELSE fail(E_EmptyList)

add_list_item(data, list_path, item_template) ==
    LET nav == NavigateToList(data, _parse_path(list_path), <<>>)
        current == nav.node
        fail(tag) == [res |-> Error(tag), data |-> data, save |-> FALSE]
        append(new_item) ==
            [res |-> DoneAdded(Len(current.items) + 1 - 1),
             data |-> Assign(data, nav.loc, JList(Append(current.items, new_item))),
             save |-> TRUE]
    IN IF nav.err # "" THEN fail(nav.err)
       ELSE IF ~IsList(current) THEN fail(E_NotAList)
       ELSE IF item_template # NoTemplate THEN append(item_template)
       ELSE IF Len(current.items) > 0 THEN append(_create_empty_copy(current.items[1]))
       ELSE fail(E_EmptyList)

\* a pop that takes the last item, whatever the index
Pop_last(items, index) == SubSeq(items, 1, Len(items) - 1)

\* list.pop(index) for 0 <= index < len
Pop(items, index) ==
    SubSeq(items, 1, index) \o SubSeq(items, index + 2, Len(items))

\* remove_list_item without the protection of the last item
remove_list_item_unprotected(data, list_path, index) ==
    LET nav == NavigateToList(data, _parse_path(list_path), <<>>)
        current == nav.node
        fail(tag) == [res |-> Error(tag), data |-> data, save |-> FALSE]
    IN IF nav.err # "" THEN fail(nav.err)
       ELSE IF ~IsList(current) THEN fail(E_NotAList)
       ELSE IF index < 0 \/ index >= Len(current.items) THEN fail(E_IndexRange)
       ELSE [res |-> DoneRemoved(index),
             data |-> Assign(data, nav.loc, JList(Pop(current.items, index))),
             save |-> TRUE]

remove_list_item(data, list_path, index) ==
    LET nav == NavigateToList(data, _parse_path(list_path), <<>>)
        current == nav.node
        fail(tag) == [res |-> Error(tag), data |-> data, save |-> FALSE]
    IN IF nav.err # "" THEN fail(nav.err)
       ELSE IF ~IsList(current) THEN fail(E_NotAList)
       ELSE IF index < 0 \/ index >= Len(current.items) THEN fail(E_IndexRange)
       ELSE IF Len(current.items) <= 1 THEN fail(E_LastItem)
       ELSE [res |-> DoneRemoved(index),
             data |-> Assign(data, nav.loc, JList(Pop(current.items, index))),
             save |-> TRUE]

(***************************************************************************)
(* set_value_impl: the coercion of a value                                 *)
(* The alphabet of the model's texts is ASCII letters, digits, '.', '+',   *)
(* '-', '@' and the space; it holds no exponent form and no underscore.    *)
(***************************************************************************)
UpperChars == <<"A", "B", "C", "D", "E", "F", "G", "H", "I", "J", "K", "L", "M",
                "N", "O", "P", "Q", "R", "S", "T", "U", "V", "W", "X", "Y", "Z">>
LowerChars == <<"a", "b", "c", "d", "e", "f", "g", "h", "i", "j", "k", "l", "m",
                "n", "o", "p", "q", "r", "s", "t", "u", "v", "w", "x", "y", "z">>

\* str.lower()
Lower(cs) ==
    [i \in 1..Len(cs) |->
        IF \E j \in 1..Len(UpperChars) : UpperChars[j] = cs[i]
        THEN LowerChars[CHOOSE j \in 1..Len(UpperChars) : UpperChars[j] = cs[i]]
        ELSE cs[i]]

\* str.strip() of spaces
RECURSIVE Strip(_)
Strip(cs) ==
    IF cs # <<>> /\ cs[1] = " " THEN Strip(Tail(cs))
    ELSE IF cs # <<>> /\ cs[Len(cs)] = " " THEN Strip(SubSeq(cs, 1, Len(cs) - 1))
    ELSE cs

HasSign(cs) == cs # <<>> /\ cs[1] \in {"+", "-"}
Unsigned(cs) == IF HasSign(cs) THEN Tail(cs) ELSE cs
Signed(cs, n) == IF cs # <<>> /\ cs[1] = "-" THEN 0 - n ELSE n

\* int(value): ok is FALSE for ValueError
ParseInt(value) ==
    LET body == Unsigned(Strip(value))
    IN IF IsDigitStr(body) THEN [ok |-> TRUE, v |-> JInt(Signed(Strip(value), DecVal(body)))]
       ELSE [ok |-> FALSE, v |-> JNull]

RECURSIVE DropTrailingZeros(_)
DropTrailingZeros(cs) ==
    IF cs # <<>> /\ cs[Len(cs)] = "0" THEN DropTrailingZeros(SubSeq(cs, 1, Len(cs) - 1))
    ELSE cs

\* float(value) for a value that holds a '.': digits '.' digits with at
\* least one digit; the number is num / 10^scale.
ParseFloat(value) ==
    LET parts == Split(Unsigned(Strip(value)), ".")
        AllDigits(cs) == \A i \in 1..Len(cs) : cs[i] \in Digits
    IN IF /\ Len(parts) = 2
          /\ AllDigits(parts[1]) /\ AllDigits(parts[2])
          /\ Len(parts[1]) + Len(parts[2]) > 0
       THEN LET frac == DropTrailingZeros(parts[2])
            IN [ok |-> TRUE,
                v |-> JFloat(Signed(Strip(value), DecVal(parts[1] \o frac)), Len(frac))]
       ELSE [ok |-> FALSE, v |-> JNull]

S_true == <<"t", "r", "u", "e">>
S_false == <<"f", "a", "l", "s", "e">>

\* parsed_value of set_value_impl; a value that is not a str is kept
ParseValue(value) ==
    IF value.kind # "text" THEN value
    ELSE IF Lower(value.cs) = S_true THEN JBool(TRUE)
    ELSE IF Lower(value.cs) = S_false THEN JBool(FALSE)
    ELSE IF \E i \in 1..Len(value.cs) : value.cs[i] = "."
         THEN (IF ParseFloat(value.cs).ok THEN ParseFloat(value.cs).v ELSE JStr(value.cs))
         ELSE (IF ParseInt(value.cs).ok THEN ParseInt(value.cs).v ELSE JStr(value.cs))

\* "not path or value is None": the update is rejected before any call
InvalidUpdate(update) == update.path = <<>> \/ update.value = JNull

(***************************************************************************)
(* The file system.  A file name is the sequence of its path components    *)
(* under BASE_DIR; a file holds a JSON document, nothing (NoFile) or is    *)
(* open for writing and still empty (Truncated).                           *)
(***************************************************************************)
NoFile == [kind |-> "nofile"]
Truncated == [kind |-> "truncated"]
IsDocument(c) == c.kind \notin {"nofile", "truncated"}

S_sessions_dir == <<"d", "a", "t", "a", "/", "s", "e", "s", "s", "i", "o", "n", "s">>
S_json == <<".", "j", "s", "o", "n">>
TEMPLATE_PATH == <<"data", "template_data.json">>

\* What the operating system makes of a path: "." and "" are skipped and
\* ".." leaves the directory (the directories named exist).
RECURSIVE ResolvePath(_, _)
ResolvePath(parts, stack) ==
    IF parts = <<>> THEN stack
    ELSE IF parts[1] \in {<<>>, <<".">>} THEN ResolvePath(Tail(parts), stack)
    ELSE IF parts[1] = <<".", ".">>
         THEN ResolvePath(Tail(parts),
                          IF stack = <<>> THEN stack ELSE SubSeq(stack, 1, Len(stack) - 1))
    ELSE ResolvePath(Tail(parts), Append(stack, Join(parts[1])))

\* os.path.join(self.sessions_dir, f"{session_id}.json"), as the file it names
_get_session_path(session_id) ==
    ResolvePath(Split(S_sessions_dir \o <<"/">> \o session_id \o S_json, "/"), <<>>)

(***************************************************************************)
(* JsonManager.get_progress                                                *)
(***************************************************************************)
\* bool(v)
Truthy(v) ==
    CASE v.kind = "null" -> FALSE
      [] v.kind = "bool" -> v.b
      [] v.kind = "int" -> v.n # 0
      [] v.kind = "float" -> v.num # 0
      [] v.kind = "str" -> v.s # <<>>
      [] v.kind = "list" -> v.items # <<>>
      [] v.kind = "dict" -> v.keys # <<>>

\* v not in [None, ""]
NotNoneOrEmptyStr(v) == v # JNull /\ v # JStr(<<>>)

\* count_fields: what a call adds to total_fields and filled_fields
RECURSIVE count_fields(_)
SumCounts(nodes) ==
    LET RECURSIVE Sum(_)
        Sum(i) == IF i = 0 THEN [total |-> 0, filled |-> 0]
                  ELSE LET sofar == Sum(i - 1)
                           c == count_fields(nodes[i])
                       IN [total |-> sofar.total + c.total,
                           filled |-> sofar.filled + c.filled]
    IN Sum(Len(nodes))

\* count_fields that counts every Field, required or not
count_fields_any(obj) ==
    IF IsDict(obj) THEN
        IF HasKey(obj, "valeur") /\ HasKey(obj, "requis")
        THEN [total |-> 1,
              filled |-> IF NotNoneOrEmptyStr(obj.m["valeur"]) THEN 1 ELSE 0]
        ELSE SumCounts([i \in 1..Len(obj.keys) |-> obj.m[obj.keys[i]]])
    ELSE IF IsList(obj) THEN SumCounts(obj.items)
    ELSE [total |-> 0, filled |-> 0]

count_fields(obj) ==
    IF IsDict(obj) THEN
        IF HasKey(obj, "valeur") /\ HasKey(obj, "requis")
        THEN IF Truthy(obj.m["requis"])
             THEN [total |-> 1,
                   filled |-> IF NotNoneOrEmptyStr(obj.m["valeur"]) THEN 1 ELSE 0]
             ELSE [total |-> 0, filled |-> 0]
        ELSE SumCounts([i \in 1..Len(obj.keys) |-> obj.m[obj.keys[i]]])
    ELSE IF IsList(obj) THEN SumCounts(obj.items)
    ELSE [total |-> 0, filled |-> 0]

\* The pairs <<filled, total>> with total < 130 for which the double
\* (filled / total) * 100 lies below the exact quotient, so that int()
\* gives one less than floor(100 * filled / total).
FloatShort == {<<29, 50>>, <<29, 100>>, <<57, 100>>, <<58, 100>>}

\* int((filled_fields / total_fields) * 100)
Percentage(filled, total) ==
    IF <<filled, total>> \in FloatShort THEN (100 * filled) \div total - 1
    ELSE (100 * filled) \div total

\* progress[category]; na stands for the percentage "N/A"
get_progress(data) ==
    [category \in DOMAIN data.m |->
        LET c == count_fields(data.m[category]) IN
        IF c.total > 0
        THEN [na |-> FALSE, percentage |-> Percentage(c.filled, c.total),
              filled |-> c.filled, total |-> c.total]
        ELSE [na |-> TRUE, percentage |-> 0, filled |-> 0, total |-> 0]]

(***************************************************************************)
(* The paths that the read operations build: f"{path}.{key}" and           *)
(* f"{path}.{i}".                                                          *)
(***************************************************************************)
DigitChars == <<"0", "1", "2", "3", "4", "5", "6", "7", "8", "9">>

\* str(i) for an index i
RECURSIVE IntText(_)
IntText(i) ==
    IF i < 10 THEN <<DigitChars[i + 1]>>
    ELSE IntText(i \div 10) \o <<DigitChars[(i % 10) + 1]>>

\* The keys of the documents, as text.
KeyTexts ==
    { <<"m", "e", "t", "a">>, <<"d", "o", "c">>,
      <<"p", "a", "r", "t", "i", "e", "s">>, <<"l", "i", "s", "t", "e">>,
      <<"n", "o", "m">>, <<"g", "a", "r", "a", "n", "t">>,
      <<"m", "o", "d", "e">>,
      <<"l", "o", "y", "e", "r">>, <<"m", "o", "n", "t", "a", "n", "t">>,
      <<"v", "a", "l", "e", "u", "r">>, <<"r", "e", "q", "u", "i", "s">>,
      <<"t", "y", "p", "e">>, <<"o", "p", "t", "i", "o", "n", "s">>,
      <<"t", "e", "s", "t", "_", "s", "e", "c", "t", "i", "o", "n">>,
      <<"f", "i", "e", "l", "d", "1">>, <<"f", "i", "e", "l", "d", "2">>,
      <<"_", "m", "e", "t", "a", "d", "a", "t", "a">>,
      <<"s", "e", "s", "s", "i", "o", "n", "_", "i", "d">>,
      <<"c", "r", "e", "a", "t", "e", "d", "_", "a", "t">>,
      <<"l", "a", "s", "t", "_", "m", "o", "d", "i", "f", "i", "e", "d">>,
      <<"c", "o", "m", "p", "l", "e", "t", "i", "o", "n", "_",
        "p", "e", "r", "c", "e", "n", "t", "a", "g", "e">> }

\* the characters of a key
KeyText(key) == CHOOSE cs \in KeyTexts : Join(cs) = key

\* new_path = f"{path}.{key}" if path else key
KeyPath(path, key) == IF path # <<>> THEN path \o <<".">> \o KeyText(key) ELSE KeyText(key)

\* new_path = f"{path}.{i}"
IndexPath(path, i) == path \o <<".">> \o IntText(i)

\* the concatenation of the sequences of a sequence
RECURSIVE Flatten(_)
Flatten(seqs) == IF seqs = <<>> THEN <<>> ELSE seqs[1] \o Flatten(Tail(seqs))

(***************************************************************************)
(* JsonManager.get_missing_fields                                          *)
(***************************************************************************)
\* obj["valeur"] in [None, ""]
NoneOrEmptyStr(v) == v = JNull \/ v = JStr(<<>>)

\* find_missing without the index of the list item in the path
RECURSIVE find_missing_unindexed(_, _)
find_missing_unindexed(obj, path) ==
    IF IsDict(obj) THEN
        IF HasKey(obj, "valeur") /\ HasKey(obj, "requis")
        THEN IF Truthy(obj.m["requis"]) /\ NoneOrEmptyStr(obj.m["valeur"])
             THEN <<path>> ELSE <<>>
        ELSE Flatten([i \in 1..Len(obj.keys) |->
                 find_missing_unindexed(obj.m[obj.keys[i]], KeyPath(path, obj.keys[i]))])
    ELSE IF IsList(obj)
    THEN Flatten([i \in 1..Len(obj.items) |-> find_missing_unindexed(obj.items[i], path)])
    ELSE <<>>

\* find_missing: the paths appended to "missing", in order
RECURSIVE find_missing(_, _)
find_missing(obj, path) ==
    IF IsDict(obj) THEN
        IF HasKey(obj, "valeur") /\ HasKey(obj, "requis")
        THEN IF Truthy(obj.m["requis"]) /\ NoneOrEmptyStr(obj.m["valeur"])
             THEN <<path>> ELSE <<>>
        ELSE Flatten([i \in 1..Len(obj.keys) |->
                 find_missing(obj.m[obj.keys[i]], KeyPath(path, obj.keys[i]))])
    ELSE IF IsList(obj)
    THEN Flatten([i \in 1..Len(obj.items) |->
             find_missing(obj.items[i], IndexPath(path, i - 1))])
    ELSE <<>>

\* found is FALSE for the answer ["Category '...' not found"]
get_missing_fields(data, category) ==
    IF ~HasKey(data, Join(category)) THEN [found |-> FALSE, missing |-> <<>>]
    ELSE [found |-> TRUE, missing |-> find_missing(data.m[Join(category)], <<>>)]

(***************************************************************************)
(* JsonManager.get_all_paths, on the content of the template file          *)
(***************************************************************************)
\* traverse: what a call appends to paths and to list_paths
RECURSIVE traverse(_, _)
traverse(obj, current_path) ==
    LET Both(parts) == [paths |-> Flatten([i \in 1..Len(parts) |-> parts[i].paths]),
                        list_paths |-> Flatten([i \in 1..Len(parts) |-> parts[i].list_paths])]
    IN IF IsDict(obj) THEN
           IF HasKey(obj, "valeur") /\ HasKey(obj, "requis")
           THEN [paths |-> <<current_path>>, list_paths |-> <<>>]
           ELSE Both([i \in 1..Len(obj.keys) |->
                    traverse(obj.m[obj.keys[i]], KeyPath(current_path, obj.keys[i]))])
       ELSE IF IsList(obj)
       THEN LET below == Both([i \in 1..Len(obj.items) |->
                             traverse(obj.items[i], IndexPath(current_path, i - 1))])
            IN [paths |-> below.paths, list_paths |-> <<current_path>> \o below.list_paths]
       ELSE [paths |-> <<>>, list_paths |-> <<>>]

\* get_all_paths that lists the paths of a session's tree
get_all_paths_of_session(fs) ==
    LET f == _get_session_path(<<"s", "1">>)
        tree == IF IsDocument(fs[f]) THEN fs[f] ELSE fs[TEMPLATE_PATH]
    IN [raised |-> FALSE, field_paths |-> traverse(tree, <<>>).paths,
        list_paths |-> traverse(tree, <<>>).list_paths]

\* raised: open() or json.load() of the template file raises
get_all_paths(fs) ==
    IF ~IsDocument(fs[TEMPLATE_PATH])
    THEN [raised |-> TRUE, field_paths |-> <<>>, list_paths |-> <<>>]
    ELSE [raised |-> FALSE, field_paths |-> traverse(fs[TEMPLATE_PATH], <<>>).paths,
          list_paths |-> traverse(fs[TEMPLATE_PATH], <<>>).list_paths]

(***************************************************************************)
(* JsonManager.get_list_items_info and _format_item.  The returned text    *)
(* is kept as its content: the number of items of its first line and, per  *)
(* item, the lines that _format_item appends (the nesting depth for the    *)
(* indent, filled for the mark, the value shown, required for the          *)
(* " (required)" suffix; a line "key:" of a nested object has head TRUE).  *)
(***************************************************************************)
RECURSIVE _format_item(_, _)
_format_item(obj, depth) ==
    IF ~IsDict(obj) THEN <<>>
    ELSE IF HasKey(obj, "valeur") /\ HasKey(obj, "requis")
    THEN << [depth |-> depth, head |-> FALSE, key |-> "valeur",
             filled |-> ~NoneOrEmptyStr(obj.m["valeur"]),
             value |-> obj.m["valeur"], required |-> FALSE] >>
    ELSE Flatten([i \in 1..Len(obj.keys) |->
            LET key == obj.keys[i]
                value == obj.m[key]
            IN IF ~IsDict(value) THEN <<>>
               ELSE IF HasKey(value, "valeur")
               THEN << [depth |-> depth, head |-> FALSE, key |-> key,
                        filled |-> ~NoneOrEmptyStr(value.m["valeur"]),
                        value |-> value.m["valeur"],
                        required |-> HasKey(value, "requis") /\ Truthy(value.m["requis"])] >>
               ELSE << [depth |-> depth, head |-> TRUE, key |-> key, filled |-> FALSE,
                        value |-> JNull, required |-> FALSE] >>
                    \o _format_item(value, depth + 1)])

\* The loop "for key in keys" of get_list_items_info: a list is indexed with
\* int(key), a dict with key, anything else is stepped over.
RECURSIVE InfoNavigate(_, _)
InfoNavigate(current, keys) ==
    IF keys = <<>> THEN [err |-> "", node |-> current]
    ELSE LET key == keys[1] IN
         IF IsList(current) THEN
             IF ~IsIntKey(key) /\ ~ParseInt(key.cs).ok
             THEN [err |-> "ValueError", node |-> current]
             ELSE LET n == IF IsIntKey(key) THEN key.int ELSE ParseInt(key.cs).v.n
                      \* a negative index counts from the end of the list
                      at == IF n < 0 THEN Len(current.items) + n ELSE n
                  IN IF at < 0 \/ at >= Len(current.items)
                     THEN [err |-> E_IndexError, node |-> current]
                     ELSE InfoNavigate(current.items[at + 1], Tail(keys))
         ELSE IF IsDict(current) THEN
             IF IsIntKey(key) \/ ~HasKey(current, key.str)
             THEN [err |-> "KeyError", node |-> current]
             ELSE InfoNavigate(current.m[key.str], Tail(keys))
         ELSE InfoNavigate(current, Tail(keys))

\* get_list_items_info that counts the items from 0
get_list_items_info_short(data, list_path) ==
    LET nav == InfoNavigate(data, _parse_path(list_path))
    IN IF nav.err # "" THEN [res |-> Error(nav.err), count |-> 0, items |-> <<>>]
       ELSE IF ~IsList(nav.node) THEN [res |-> Error(E_NotAList), count |-> 0, items |-> <<>>]
       ELSE [res |-> Done, count |-> Len(nav.node.items) - 1,
             items |-> [i \in 1..Len(nav.node.items) |-> _format_item(nav.node.items[i], 0)]]

get_list_items_info(data, list_path) ==
    LET nav == InfoNavigate(data, _parse_path(list_path))
    IN IF nav.err # "" THEN [res |-> Error(nav.err), count |-> 0, items |-> <<>>]
       ELSE IF ~IsList(nav.node) THEN [res |-> Error(E_NotAList), count |-> 0, items |-> <<>>]
       ELSE [res |-> Done, count |-> Len(nav.node.items),
             items |-> [i \in 1..Len(nav.node.items) |-> _format_item(nav.node.items[i], 0)]]

(***************************************************************************)
(* The template (data/template_data.json), reduced to one Field of each    *)
(* sort the engine distinguishes: a fixed one, the Fields of the one item  *)
(* of a repeatable list, a number.                                         *)
(***************************************************************************)
S_fixe == <<"f", "i", "x", "e">>
S_texte == <<"t", "e", "x", "t", "e">>
S_bail == <<"B", "a", "i", "l">>

Template ==
    JDict(<<"meta", "parties", "loyer">>,
      [meta |-> JDict(<<"doc">>, [doc |-> Field(JStr(S_bail), TRUE, S_fixe)]),
       parties |-> JDict(<<"liste">>,
          [liste |-> JList(<<JDict(<<"nom", "garant">>,
                               [nom |-> Field(JStr(<<>>), TRUE, S_texte),
                                garant |-> Field(JNull, FALSE, S_booleen)])>>)]),
       loyer |-> JDict(<<"montant">>, [montant |-> Field(JNull, TRUE, S_nombre)])])

\* The same template with a Field of type choix, with its options, in the
\* item of the list.
S_choix == <<"c", "h", "o", "i", "x">>

FieldWithOptions(v, req, ty, options) ==
    JDict(<<"valeur", "requis", "type", "options">>,
          [valeur |-> v, requis |-> JBool(req), type |-> JStr(ty),
           options |-> JList([i \in 1..Len(options) |-> JStr(options[i])])])

TemplateWithOptions ==
    [Template EXCEPT !.m["parties"].m["liste"].items[1] =
        JDict(<<"nom", "garant", "mode">>,
              [nom |-> Field(JStr(<<>>), TRUE, S_texte),
               garant |-> Field(JNull, FALSE, S_booleen),
               mode |-> FieldWithOptions(JStr(<<>>), FALSE, S_choix,
                                         <<(<<"a">>), (<<"b">>)>>)])]

(***************************************************************************)
(* Inputs of the calls.                                                    *)
(***************************************************************************)
Threads == {"t1", "t2"}
NoThread == "none"
\* the thread of the single caller of Spec and SpecAnyId
Caller == "t1"

SID_1 == <<"s", "1">>
SID_2 == <<"s", "2">>
\* an id that leaves the sessions directory: data/sessions/../template_data.json
SID_up == <<".", ".", "/", "t", "e", "m", "p", "l", "a", "t", "e", "_", "d", "a", "t", "a">>
\* the ids that name a file of the sessions directory, and all ids
SessionIds == {SID_1, SID_2}
AnyIds == {SID_1, SID_2, SID_up}

FileNames == {_get_session_path(sid) : sid \in AnyIds} \cup {TEMPLATE_PATH}

P_liste == <<"p", "a", "r", "t", "i", "e", "s", ".", "l", "i", "s", "t", "e">>
P_nom0 == P_liste \o <<".", "0", ".", "n", "o", "m">>
P_nom1 == P_liste \o <<"[", "1", "]", ".", "n", "o", "m">>
P_montant == <<"l", "o", "y", "e", "r", ".", "m", "o", "n", "t", "a", "n", "t">>
P_nokey == <<"l", "o", "y", "e", "r", ".", "n", "o">>
P_nopath == <<"n", "o", ".", "s", "u", "c", "h", ".", "p", "a", "t", "h">>

V_x == Text(<<"x">>)
V_800 == Text(<<"8", "0", "0">>)

Update(path, value) == [path |-> path, value |-> value]
Updates ==
    { Update(P_nom0, V_x), Update(P_montant, V_800),
      Update(P_nokey, V_x), Update(P_nopath, V_x), Update(P_liste, V_x),
      Update(P_montant, JNull) }
\* the lists of at most n updates
Batches(upds, n) == UNION {[1..k -> upds] : k \in 0..n}

ListPaths == {P_liste, P_montant}
Indices == {-1, 0, 1}

(***************************************************************************)
(* MonitoringService (backend/fastapi_app/services/monitoring.py): the     *)
(* counters of the HTTP application.                                       *)
(***************************************************************************)
\* MonitoringService.__new__: the singleton when it is created
MonitoringService ==
    [total_requests |-> 0, error_count_4xx |-> 0, error_count_5xx |-> 0,
     requests_by_endpoint |-> [key \in {} |-> 0], response_times |-> <<>>,
     max_response_times_history |-> 1000]

\* log_request that counts a request under its endpoint only
log_request_uncounted(self, endpoint, method, processing_time, status_code) ==
    LET key == method \o <<" ">> \o endpoint
        seen == IF key \in DOMAIN self.requests_by_endpoint
                THEN self.requests_by_endpoint[key] ELSE 0
    IN [self EXCEPT !.requests_by_endpoint = (key :> (seen + 1)) @@ @]

\* MonitoringService.log_request: the service after the call
log_request(self, endpoint, method, processing_time, status_code) ==
    LET key == method \o <<" ">> \o endpoint
        \* defaultdict(int): a key not seen yet counts 0
        seen == IF key \in DOMAIN self.requests_by_endpoint
                THEN self.requests_by_endpoint[key] ELSE 0
        times == Append(self.response_times, processing_time)
    IN [self EXCEPT
           !.total_requests = @ + 1,
           !.requests_by_endpoint = (key :> (seen + 1)) @@ @,
           !.error_count_4xx = IF 400 <= status_code /\ status_code < 500 THEN @ + 1 ELSE @,
           !.error_count_5xx = IF ~(400 <= status_code /\ status_code < 500)
                                  /\ status_code >= 500 THEN @ + 1 ELSE @,
           !.response_times = IF Len(times) > self.max_response_times_history
                              THEN Tail(times) ELSE times]

(***************************************************************************)
(* State.                                                                  *)
(***************************************************************************)
VARIABLES
    files,     \* the file system: file name -> content
    lock,      \* self.lock, a re-entrant lock: its owner and its count
    pc,        \* where each thread is
    call,      \* the call each thread is in, with its arguments
    data,      \* the tree each thread has loaded (the local "data")
    ret,       \* the string the JsonManager operation returns
    results,   \* the list "results" of set_value_impl
    pre,       \* the file system when the thread took the lock
    nops,      \* number of JsonManager operations asked for so far
    serial,    \* the file system had each operation run alone, whole, at
               \* the moment it took the lock
    lastRead,  \* per file, the tree the last load_session or create_session
               \* returned, NoFile once the file has been saved since
    start,     \* the file system when the thread made its call
    out,       \* what a read operation has computed
    monitoring_service  \* the MonitoringService singleton of the HTTP app

vars == <<files, lock, pc, call, data, ret, results, pre, nops, serial, lastRead,
          start, out, monitoring_service>>

NoCall == [name |-> "none", session_id |-> <<>>, path |-> <<>>, value |-> JNull,
           index |-> 0, updates |-> <<>>, i |-> 0]
NoResult == [ok |-> FALSE, tag |-> "", index |-> -1]
NoPre == [f \in FileNames |-> NoFile]
NoOut == [kind |-> "none"]

Init ==
    /\ files = [f \in FileNames |-> IF f = TEMPLATE_PATH THEN Template ELSE NoFile]
    /\ lock = [owner |-> NoThread, count |-> 0]
    /\ pc = [t \in Threads |-> "idle"]
    /\ call = [t \in Threads |-> NoCall]
    /\ data = [t \in Threads |-> JNull]
    /\ ret = [t \in Threads |-> NoResult]
    /\ results = [t \in Threads |-> <<>>]
    /\ pre = [t \in Threads |-> NoPre]
    /\ nops = 0
    /\ serial = files
    /\ lastRead = [f \in FileNames |-> NoFile]
    /\ start = [t \in Threads |-> NoPre]
    /\ out = [t \in Threads |-> NoOut]
    /\ monitoring_service = MonitoringService

(***************************************************************************)
(* JsonManager.create_session, load_session and save_session on a file     *)
(* system fs: the file system they leave and the tree they return.         *)
(***************************************************************************)
\* open(session_path) and json.load(f); an empty file raises JSONDecodeError
ReadJson(fs, session_id) ==
    LET session_path == _get_session_path(session_id)
    IN [fs |-> fs, raised |-> ~IsDocument(fs[session_path]), tree |-> fs[session_path]]

\* create_session that copies the template whether or not the file exists
create_session_overwriting(fs, session_id) ==
    ReadJson([fs EXCEPT ![_get_session_path(session_id)] = fs[TEMPLATE_PATH]], session_id)

create_session(fs, session_id) ==
    LET session_path == _get_session_path(session_id)
    IN IF fs[session_path] = NoFile
       THEN ReadJson([fs EXCEPT ![session_path] = fs[TEMPLATE_PATH]], session_id)
       ELSE ReadJson(fs, session_id)

load_session(fs, session_id) ==
    LET session_path == _get_session_path(session_id)
    IN IF fs[session_path] = NoFile THEN create_session(fs, session_id)
       ELSE ReadJson(fs, session_id)

(***************************************************************************)
(* The calls.  A thread that is idle makes a call; budget bounds the       *)
(* JsonManager operations the callers ask for (one per update of a         *)
(* set_value, one per other call).                                         *)
(***************************************************************************)
Enter(t, c, cost, budget) ==
    /\ pc[t] = "idle"
    /\ nops + cost <= budget
    /\ nops' = nops + cost
    /\ call' = [call EXCEPT ![t] = c]
    /\ start' = [start EXCEPT ![t] = files]
    /\ UNCHANGED <<files, lock, data, ret, results, pre, serial, lastRead, out,
                   monitoring_service>>

\* set_value(session_id, updates)
CallSetValue(t, budget, sids, upds) ==
    \E session_id \in sids, updates \in Batches(upds, MaxBatch) :
        /\ Enter(t, [NoCall EXCEPT !.name = "set_value", !.session_id = session_id,
                                   !.updates = updates, !.i = 1],
                 IF updates = <<>> THEN 1 ELSE Len(updates), budget)
        /\ pc' = [pc EXCEPT ![t] = "sv_loop"]

\* add_list_item(session_id, list_path)
CallAddListItem(t, budget, sids, paths) ==
    \E session_id \in sids, list_path \in paths :
        /\ Enter(t, [NoCall EXCEPT !.name = "add_list_item", !.session_id = session_id,
                                   !.path = list_path], 1, budget)
        /\ pc' = [pc EXCEPT ![t] = "acquire"]

\* json_manager.add_list_item(session_id, list_path, item_template)
CallAddListItemWith(t, budget, sids, paths, templates) ==
    \E session_id \in sids, list_path \in paths, item_template \in templates :
        /\ Enter(t, [NoCall EXCEPT !.name = "add_list_item", !.session_id = session_id,
                                   !.path = list_path, !.value = item_template],
                 1, budget)
        /\ pc' = [pc EXCEPT ![t] = "acquire"]

\* remove_list_item(session_id, list_path, index)
CallRemoveListItem(t, budget, sids, paths, indices) ==
    \E session_id \in sids, list_path \in paths, index \in indices :
        /\ Enter(t, [NoCall EXCEPT !.name = "remove_list_item", !.session_id = session_id,
                                   !.path = list_path, !.index = index], 1, budget)
        /\ pc' = [pc EXCEPT ![t] = "acquire"]

\* json_manager.load_session(session_id) or create_session(session_id)
CallLoadSession(t, budget, sids) ==
    \E session_id \in sids, name \in {"load_session", "create_session"} :
        /\ Enter(t, [NoCall EXCEPT !.name = name, !.session_id = session_id], 1, budget)
        /\ pc' = [pc EXCEPT ![t] = "acquire"]

\* get_global_feedback: json_manager.get_progress(session_id)
CallGetProgress(t, budget, sids) ==
    \E session_id \in sids :
        /\ Enter(t, [NoCall EXCEPT !.name = "get_progress", !.session_id = session_id],
                 1, budget)
        /\ pc' = [pc EXCEPT ![t] = "acquire"]

\* get_part_detail: json_manager.get_missing_fields(session_id, category)
CallGetMissingFields(t, budget, sids, categories) ==
    \E session_id \in sids, category \in categories :
        /\ Enter(t, [NoCall EXCEPT !.name = "get_missing_fields",
                                   !.session_id = session_id, !.path = category],
                 1, budget)
        /\ pc' = [pc EXCEPT ![t] = "acquire"]

\* get_list_info: json_manager.get_list_items_info(session_id, list_path)
CallGetListInfo(t, budget, sids, paths) ==
    \E session_id \in sids, list_path \in paths :
        /\ Enter(t, [NoCall EXCEPT !.name = "get_list_items_info",
                                   !.session_id = session_id, !.path = list_path],
                 1, budget)
        /\ pc' = [pc EXCEPT ![t] = "acquire"]

\* json_manager.get_all_paths(): no session, no lock
CallGetAllPaths(t, budget) ==
    /\ Enter(t, [NoCall EXCEPT !.name = "get_all_paths"], 1, budget)
    /\ pc' = [pc EXCEPT ![t] = "compute"]

\* set_value_impl: the head of "for update in updates"
SvLoop(t) ==
    /\ pc[t] = "sv_loop"
    /\ LET c == call[t] IN
       IF c.i > Len(c.updates)
       THEN \* return "\n".join(results)
            /\ pc' = [pc EXCEPT ![t] = "idle"]
            /\ call' = [call EXCEPT ![t] = NoCall]
            /\ results' = [results EXCEPT ![t] = <<>>]
            /\ start' = [start EXCEPT ![t] = NoPre]
       ELSE LET update == c.updates[c.i] IN
            IF InvalidUpdate(update)
            THEN /\ results' = [results EXCEPT
                        ![t] = Append(@, [path |-> update.path,
                                          res |-> Error(E_InvalidUpdate)])]
                 /\ call' = [call EXCEPT ![t].i = @ + 1]
                 /\ pc' = pc
                 /\ start' = start
            ELSE /\ call' = [call EXCEPT ![t].path = update.path,
                                         ![t].value = ParseValue(update.value)]
                 /\ pc' = [pc EXCEPT ![t] = "acquire"]
                 /\ results' = results
                 /\ start' = start
    /\ UNCHANGED <<files, lock, data, ret, pre, nops, serial, lastRead, out, monitoring_service>>

(***************************************************************************)
(* The steps of a JsonManager operation: "with self.lock", load_session,   *)
(* the body, save_session (open for writing, then json.dump), the end of   *)
(* the with block.                                                         *)
(***************************************************************************)
IsWrite(c) == c.name \in {"set_value", "add_list_item", "remove_list_item"}
IsLoad(c) == c.name \in {"load_session", "create_session"}
\* the operations that load the session and compute from the loaded tree
IsRead(c) == c.name \in {"get_progress", "get_missing_fields", "get_list_items_info"}

\* the try block of update_value, add_list_item or remove_list_item up to
\* its return or its call of save_session
Body(c, tree) ==
    CASE c.name = "set_value" -> update_value(tree, c.path, c.value)
      [] c.name = "add_list_item" -> add_list_item(tree, c.path, c.value)
      [] c.name = "remove_list_item" -> remove_list_item(tree, c.path, c.index)

\* The file system after the operation of call c has run alone on fs.
Alone(fs, c) ==
    LET l == IF c.name = "create_session" THEN create_session(fs, c.session_id)
             ELSE load_session(fs, c.session_id)
    IN IF l.raised \/ ~IsWrite(c) THEN l.fs
       ELSE IF Body(c, l.tree).save
            THEN [l.fs EXCEPT ![_get_session_path(c.session_id)] = Body(c, l.tree).data]
            ELSE l.fs

\* threading.RLock: free, or held by the thread that asks
\* a lock that every thread can take at any time
CanAcquire_always(t) == TRUE

\* a lock that is not re-entrant (threading.Lock): free
CanAcquire_free(t) == lock.owner = NoThread

CanAcquire(t) == lock.owner \in {NoThread, t}

Acquire(t) ==
    /\ pc[t] = "acquire"
    /\ CanAcquire(t)
    /\ lock' = [owner |-> t, count |-> lock.count + 1]
    /\ pre' = [pre EXCEPT ![t] = files]
    /\ serial' = Alone(serial, call[t])
    /\ pc' = [pc EXCEPT ![t] = "load"]
    /\ UNCHANGED <<files, call, data, ret, results, nops, lastRead, start, out,
                   monitoring_service>>

\* data = self.load_session(session_id); for load_session and
\* create_session themselves, the whole body
Load(t) ==
    /\ pc[t] = "load"
    /\ LET c == call[t]
           r == IF c.name = "create_session" THEN create_session(files, c.session_id)
                ELSE load_session(files, c.session_id)
       IN /\ files' = r.fs
          /\ data' = [data EXCEPT ![t] = r.tree]
          /\ IF r.raised
             THEN /\ ret' = [ret EXCEPT ![t] = Error("JSONDecodeError")]
                  /\ pc' = [pc EXCEPT ![t] = "release"]
             ELSE IF ~IsWrite(c)
             THEN /\ ret' = [ret EXCEPT ![t] = Done]
                  /\ pc' = [pc EXCEPT ![t] = "release"]
             ELSE /\ ret' = ret
                  /\ pc' = [pc EXCEPT ![t] = "modify"]
    /\ UNCHANGED <<lock, call, results, pre, nops, serial, lastRead, start, out,
                   monitoring_service>>

\* the body, never followed by save_session
Modify_unsaved(t) ==
    /\ pc[t] = "modify"
    /\ LET r == Body(call[t], data[t])
       IN /\ data' = [data EXCEPT ![t] = r.data]
          /\ ret' = [ret EXCEPT ![t] = r.res]
          /\ pc' = [pc EXCEPT ![t] = "release"]
    /\ UNCHANGED <<files, lock, call, results, pre, nops, serial, lastRead, start, out,
                   monitoring_service>>

Modify(t) ==
    /\ pc[t] = "modify"
    /\ LET r == Body(call[t], data[t])
       IN /\ data' = [data EXCEPT ![t] = r.data]
          /\ ret' = [ret EXCEPT ![t] = r.res]
          /\ pc' = [pc EXCEPT ![t] = IF r.save THEN "save_open" ELSE "release"]
    /\ UNCHANGED <<files, lock, call, results, pre, nops, serial, lastRead, start, out,
                   monitoring_service>>

\* save_session: open(session_path, 'w')
SaveOpen(t) ==
    /\ pc[t] = "save_open"
    /\ files' = [files EXCEPT ![_get_session_path(call[t].session_id)] = Truncated]
    /\ lastRead' = [lastRead EXCEPT ![_get_session_path(call[t].session_id)] = NoFile]
    /\ pc' = [pc EXCEPT ![t] = "save_dump"]
    /\ UNCHANGED <<lock, call, data, ret, results, pre, nops, serial, start, out,
                   monitoring_service>>

\* save_session: json.dump(data, f) and the close of the file
SaveDump(t) ==
    /\ pc[t] = "save_dump"
    /\ files' = [files EXCEPT ![_get_session_path(call[t].session_id)] = data[t]]
    /\ lastRead' = [lastRead EXCEPT ![_get_session_path(call[t].session_id)] = NoFile]
    /\ pc' = [pc EXCEPT ![t] = "release"]
    /\ UNCHANGED <<lock, call, data, ret, results, pre, nops, serial, start, out,
                   monitoring_service>>

\* Release in a set_value_impl that gives up its batch at the first error
Release_abort(t) ==
    /\ pc[t] = "release"
    /\ lock' = [owner |-> IF lock.count = 1 THEN NoThread ELSE lock.owner,
                count |-> lock.count - 1]
    /\ IF call[t].name = "set_value"
       THEN \* results.append(f"Update '{path}': {result}")
            /\ results' = [results EXCEPT
                   ![t] = Append(@, [path |-> call[t].path, res |-> ret[t]])]
            /\ call' = [call EXCEPT ![t].i = IF ret[t].ok THEN @ + 1
                                              ELSE Len(call[t].updates) + 1]
            /\ pc' = [pc EXCEPT ![t] = "sv_loop"]
            /\ data' = [data EXCEPT ![t] = JNull]
            /\ start' = start
       ELSE IF IsRead(call[t]) /\ ret[t].ok
       THEN \* load_session has returned: the read goes on without the lock
            /\ results' = results
            /\ call' = call
            /\ pc' = [pc EXCEPT ![t] = "compute"]
            /\ data' = data
            /\ start' = start
       ELSE /\ results' = results
            /\ call' = [call EXCEPT ![t] = NoCall]
            /\ pc' = [pc EXCEPT ![t] = "idle"]
            /\ data' = [data EXCEPT ![t] = JNull]
            /\ start' = [start EXCEPT ![t] = NoPre]
    /\ ret' = [ret EXCEPT ![t] = NoResult]
    /\ pre' = [pre EXCEPT ![t] = NoPre]
    /\ lastRead' = IF IsLoad(call[t]) /\ ret[t].ok
                   THEN [lastRead EXCEPT ![_get_session_path(call[t].session_id)] = data[t]]
                   ELSE lastRead
    /\ UNCHANGED <<files, nops, serial, out, monitoring_service>>

\* the end of "with self.lock" and the return to the caller
Release(t) ==
    /\ pc[t] = "release"
    /\ lock' = [owner |-> IF lock.count = 1 THEN NoThread ELSE lock.owner,
                count |-> lock.count - 1]
    /\ IF call[t].name = "set_value"
       THEN \* results.append(f"Update '{path}': {result}")
            /\ results' = [results EXCEPT
                   ![t] = Append(@, [path |-> call[t].path, res |-> ret[t]])]
            /\ call' = [call EXCEPT ![t].i = @ + 1]
            /\ pc' = [pc EXCEPT ![t] = "sv_loop"]
            /\ data' = [data EXCEPT ![t] = JNull]
            /\ start' = start
       ELSE IF IsRead(call[t]) /\ ret[t].ok
       THEN \* load_session has returned: the read goes on without the lock
            /\ results' = results
            /\ call' = call
            /\ pc' = [pc EXCEPT ![t] = "compute"]
            /\ data' = data
            /\ start' = start
       ELSE /\ results' = results
            /\ call' = [call EXCEPT ![t] = NoCall]
            /\ pc' = [pc EXCEPT ![t] = "idle"]
            /\ data' = [data EXCEPT ![t] = JNull]
            /\ start' = [start EXCEPT ![t] = NoPre]
    /\ ret' = [ret EXCEPT ![t] = NoResult]
    /\ pre' = [pre EXCEPT ![t] = NoPre]
    /\ lastRead' = IF IsLoad(call[t]) /\ ret[t].ok
                   THEN [lastRead EXCEPT ![_get_session_path(call[t].session_id)] = data[t]]
                   ELSE lastRead
    /\ UNCHANGED <<files, nops, serial, out, monitoring_service>>

\* get_progress, get_missing_fields, get_list_items_info: the computation on
\* the tree loaded; get_all_paths: the whole method, on the template file
Compute(t) ==
    /\ pc[t] = "compute"
    /\ out' = [out EXCEPT ![t] =
           CASE call[t].name = "get_progress" -> get_progress(data[t])
             [] call[t].name = "get_missing_fields" ->
                    get_missing_fields(data[t], call[t].path)
             [] call[t].name = "get_list_items_info" ->
                    get_list_items_info(data[t], call[t].path)
             [] call[t].name = "get_all_paths" -> get_all_paths(files)]
    /\ pc' = [pc EXCEPT ![t] = "return"]
    /\ UNCHANGED <<files, lock, call, data, ret, results, pre, nops, serial, lastRead,
                   start,
                   monitoring_service>>

\* the return of a read operation
Return(t) ==
    /\ pc[t] = "return"
    /\ pc' = [pc EXCEPT ![t] = "idle"]
    /\ call' = [call EXCEPT ![t] = NoCall]
    /\ data' = [data EXCEPT ![t] = JNull]
    /\ out' = [out EXCEPT ![t] = NoOut]
    /\ start' = [start EXCEPT ![t] = NoPre]
    /\ UNCHANGED <<files, lock, ret, results, pre, nops, serial, lastRead, monitoring_service>>

(***************************************************************************)
(* Spec: one caller.  SpecConc: concurrent callers.  SpecAnyId: one caller *)
(* that may pass any string as a session id.                               *)
(***************************************************************************)
Next ==
    \/ CallSetValue(Caller, MaxOps, SessionIds, Updates)
    \/ CallAddListItem(Caller, MaxOps, SessionIds, ListPaths)
    \/ CallRemoveListItem(Caller, MaxOps, SessionIds, ListPaths, Indices)
    \/ CallLoadSession(Caller, MaxOps, SessionIds)
    \/ CallGetProgress(Caller, MaxOps, SessionIds)
    \/ SvLoop(Caller)
    \/ Acquire(Caller)
    \/ Load(Caller)
    \/ Modify(Caller)
    \/ SaveOpen(Caller)
    \/ SaveDump(Caller)
    \/ Release(Caller)
    \/ Compute(Caller)
    \/ Return(Caller)

Spec == Init /\ [][Next]_vars

\* Concurrent callers on one session.
ConcSessionIds == {SID_1}
ConcUpdates == {Update(P_nom0, V_x), Update(P_montant, V_800)}
ConcListPaths == {P_liste}
ConcIndices == {0, 1}

NextConc ==
    \E t \in Threads :
        \/ CallSetValue(t, MaxConcOps, ConcSessionIds, ConcUpdates)
        \/ CallAddListItem(t, MaxConcOps, ConcSessionIds, ConcListPaths)
        \/ CallRemoveListItem(t, MaxConcOps, ConcSessionIds, ConcListPaths, ConcIndices)
        \/ CallLoadSession(t, MaxConcOps, ConcSessionIds)
        \/ CallGetProgress(t, MaxConcOps, ConcSessionIds)
        \/ SvLoop(t)
        \/ Acquire(t)
        \/ Load(t)
        \/ Modify(t)
        \/ SaveOpen(t)
        \/ SaveDump(t)
        \/ Release(t)
        \/ Compute(t)
        \/ Return(t)

SpecConc == Init /\ [][NextConc]_vars

NextAnyId ==
    \/ CallSetValue(Caller, MaxAnyIdOps, AnyIds, Updates)
    \/ CallAddListItem(Caller, MaxAnyIdOps, AnyIds, ListPaths)
    \/ CallRemoveListItem(Caller, MaxAnyIdOps, AnyIds, ListPaths, Indices)
    \/ CallLoadSession(Caller, MaxAnyIdOps, AnyIds)
    \/ CallGetProgress(Caller, MaxAnyIdOps, AnyIds)
    \/ SvLoop(Caller)
    \/ Acquire(Caller)
    \/ Load(Caller)
    \/ Modify(Caller)
    \/ SaveOpen(Caller)
    \/ SaveDump(Caller)
    \/ Release(Caller)
    \/ Compute(Caller)
    \/ Return(Caller)

SpecAnyId == Init /\ [][NextAnyId]_vars

\* One caller that writes and reads one session; the template holds a Field
\* with options, the updates name the list items in both notations and
\* carry a list as a value.
P_nom0b == P_liste \o <<"[", "0", "]", ".", "n", "o", "m">>
P_nom1d == P_liste \o <<".", "1", ".", "n", "o", "m">>
P_garant0 == P_liste \o <<".", "0", ".", "g", "a", "r", "a", "n", "t">>
P_mode0 == P_liste \o <<".", "0", ".", "m", "o", "d", "e">>
V_true == Text(<<"T", "r", "u", "e">>)

ReadSessionIds == {SID_1}
ReadUpdates ==
    { Update(P_nom0, V_x), Update(P_nom0b, V_x), Update(P_nom1, V_x),
      Update(P_nom1d, V_800), Update(P_montant, V_800), Update(P_garant0, V_true),
      Update(P_mode0, V_x), Update(P_nom0, JList(<<>>)) }
ReadListPaths == {P_liste}
ReadIndices == {0, 1}
Categories == { <<"m", "e", "t", "a">>, <<"p", "a", "r", "t", "i", "e", "s">>,
                <<"l", "o", "y", "e", "r">>, <<"n", "o">> }
InfoPaths == {P_liste, P_montant}

InitRead ==
    /\ files = [f \in FileNames |->
                  IF f = TEMPLATE_PATH THEN TemplateWithOptions ELSE NoFile]
    /\ lock = [owner |-> NoThread, count |-> 0]
    /\ pc = [t \in Threads |-> "idle"]
    /\ call = [t \in Threads |-> NoCall]
    /\ data = [t \in Threads |-> JNull]
    /\ ret = [t \in Threads |-> NoResult]
    /\ results = [t \in Threads |-> <<>>]
    /\ pre = [t \in Threads |-> NoPre]
    /\ nops = 0
    /\ serial = files
    /\ lastRead = [f \in FileNames |-> NoFile]
    /\ start = [t \in Threads |-> NoPre]
    /\ out = [t \in Threads |-> NoOut]
    /\ monitoring_service = MonitoringService

NextRead ==
    \/ CallSetValue(Caller, MaxReadOps, ReadSessionIds, ReadUpdates)
    \/ CallAddListItem(Caller, MaxReadOps, ReadSessionIds, ReadListPaths)
    \/ CallRemoveListItem(Caller, MaxReadOps, ReadSessionIds, ReadListPaths, ReadIndices)
    \/ CallGetProgress(Caller, MaxReadOps, ReadSessionIds)
    \/ CallGetMissingFields(Caller, MaxReadOps, ReadSessionIds, Categories)
    \/ CallGetListInfo(Caller, MaxReadOps, ReadSessionIds, InfoPaths)
    \/ CallGetAllPaths(Caller, MaxReadOps)
    \/ SvLoop(Caller)
    \/ Acquire(Caller)
    \/ Load(Caller)
    \/ Modify(Caller)
    \/ SaveOpen(Caller)
    \/ SaveDump(Caller)
    \/ Release(Caller)
    \/ Compute(Caller)
    \/ Return(Caller)

SpecRead == InitRead /\ [][NextRead]_vars

\* get_progress on the sessions that n - 1 calls of add_list_item and the
\* update of nom in the first k items leave: the list holds n items, k of
\* them with a name.
ItemNamed(v) == [Template.m["parties"].m["liste"].items[1] EXCEPT !.m["nom"].m["valeur"] = v]

SessionWithItems(n, k) ==
    [Template EXCEPT !.m["parties"].m["liste"].items =
        [i \in 1..n |-> IF i <= k THEN ItemNamed(JStr(<<"x">>)) ELSE ItemNamed(JStr(<<>>))]]

InitProgress ==
    /\ \E n \in 1..MaxItems, k \in 0..MaxItems :
           /\ k <= n
           /\ files = [f \in FileNames |->
                         IF f = TEMPLATE_PATH THEN Template
                         ELSE IF f = _get_session_path(SID_1) THEN SessionWithItems(n, k)
                         ELSE NoFile]
    /\ lock = [owner |-> NoThread, count |-> 0]
    /\ pc = [t \in Threads |-> "idle"]
    /\ call = [t \in Threads |-> NoCall]
    /\ data = [t \in Threads |-> JNull]
    /\ ret = [t \in Threads |-> NoResult]
    /\ results = [t \in Threads |-> <<>>]
    /\ pre = [t \in Threads |-> NoPre]
    /\ nops = 0
    /\ serial = files
    /\ lastRead = [f \in FileNames |-> NoFile]
    /\ start = [t \in Threads |-> NoPre]
    /\ out = [t \in Threads |-> NoOut]
    /\ monitoring_service = MonitoringService

NextProgress ==
    \/ CallGetProgress(Caller, MaxProgressOps, ReadSessionIds)
    \/ Acquire(Caller)
    \/ Load(Caller)
    \/ Release(Caller)
    \/ Compute(Caller)
    \/ Return(Caller)

SpecProgress == InitProgress /\ [][NextProgress]_vars

\* One caller whose updates name paths that lead nowhere: a step that is
\* not an index or is out of range on a list, a key a mapping lacks, a step
\* below a scalar (the str "Bail", the null of loyer.montant).
P_liste_x == P_liste \o <<".", "x">>
P_liste_x_nom == P_liste \o <<".", "x", ".", "n", "o", "m">>
P_liste_5 == P_liste \o <<".", "5">>
P_liste_5_nom == P_liste \o <<".", "5", ".", "n", "o", "m">>
P_doc_valeur == <<"m", "e", "t", "a", ".", "d", "o", "c", ".", "v", "a", "l", "e", "u", "r">>
P_str_x == P_doc_valeur \o <<".", "x">>
P_str_a == P_doc_valeur \o <<".", "a">>
P_str_x_y == P_doc_valeur \o <<".", "x", ".", "y">>
P_null_x == P_montant \o <<".", "v", "a", "l", "e", "u", "r", ".", "x">>

PathUpdates ==
    { Update(P_nom0, V_x), Update(P_liste_x, V_x), Update(P_liste_x_nom, V_x),
      Update(P_liste_5, V_x), Update(P_liste_5_nom, V_x), Update(P_nokey, V_x),
      Update(P_nopath, V_x), Update(P_str_x, V_x), Update(P_str_a, V_x),
      Update(P_str_x_y, V_x), Update(P_null_x, V_x) }

NextPath ==
    \/ CallSetValue(Caller, MaxPathOps, ReadSessionIds, PathUpdates)
    \/ SvLoop(Caller)
    \/ Acquire(Caller)
    \/ Load(Caller)
    \/ Modify(Caller)
    \/ SaveOpen(Caller)
    \/ SaveDump(Caller)
    \/ Release(Caller)

SpecPath == Init /\ [][NextPath]_vars

\* A thread that writes session s1 and a thread that reads it.
Writer == "t1"
Reader == "t2"
SnapCategories == { <<"p", "a", "r", "t", "i", "e", "s">>, <<"l", "o", "y", "e", "r">> }

NextSnap ==
    \/ CallSetValue(Writer, MaxSnapOps, ConcSessionIds, ConcUpdates)
    \/ CallAddListItem(Writer, MaxSnapOps, ConcSessionIds, ConcListPaths)
    \/ CallGetProgress(Reader, MaxSnapOps, ConcSessionIds)
    \/ CallGetMissingFields(Reader, MaxSnapOps, ConcSessionIds, SnapCategories)
    \/ \E t \in Threads :
        \/ SvLoop(t)
        \/ Acquire(t)
        \/ Load(t)
        \/ Modify(t)
        \/ SaveOpen(t)
        \/ SaveDump(t)
        \/ Release(t)
        \/ Compute(t)
        \/ Return(t)

SpecSnap == Init /\ [][NextSnap]_vars

(***************************************************************************)
(* save_session and load_session on the text of the file:                  *)
(* json.dump(data, f, indent=2, ensure_ascii=False) and json.load(f).      *)
(***************************************************************************)
\* the content of a file written by json.dump
JsonText(cs) == [kind |-> "json", cs |-> cs]

RECURSIVE Pow10(_)
Pow10(k) == IF k = 0 THEN 1 ELSE 10 * Pow10(k - 1)

\* the digits of n on k places
RECURSIVE Places(_, _)
Places(n, k) == IF k = 0 THEN <<>> ELSE Places(n \div 10, k - 1) \o <<DigitChars[(n % 10) + 1]>>

\* the encoder that writes the characters of a string as they are
Escape_raw(cs) == cs

\* the escapes of the encoder when ensure_ascii is False
Escape(cs) ==
    Flatten([i \in 1..Len(cs) |->
        CASE cs[i] = "\"" -> <<"\\", "\"">>
          [] cs[i] = "\\" -> <<"\\", "\\">>
          [] cs[i] = "\n" -> <<"\\", "n">>
          [] OTHER -> <<cs[i]>>])

Quoted(cs) == <<"\"">> \o Escape(cs) \o <<"\"">>

\* int.__repr__ and float.__repr__ of the numbers of the model
NumberText(v) ==
    LET n == IF v.kind = "int" THEN v.n ELSE v.num
        a == IF n < 0 THEN 0 - n ELSE n
        sign == IF n < 0 THEN <<"-">> ELSE <<>>
    IN IF v.kind = "int" THEN sign \o IntText(a)
       ELSE sign \o IntText(a \div Pow10(v.scale)) \o <<".">>
                 \o (IF v.scale = 0 THEN <<"0">> ELSE Places(a % Pow10(v.scale), v.scale))

\* newline and the indentation of a nesting level (indent=2)
Indent(level) == <<"\n">> \o [i \in 1..(2 * level) |-> " "]

\* the chunks joined with "," and the indentation of level + 1, closed at
\* the indentation of level
Block(open, chunks, close, level) ==
    IF chunks = <<>> THEN <<open, close>>
    ELSE <<open>>
         \o Flatten([i \in 1..Len(chunks) |->
                (IF i = 1 THEN <<>> ELSE <<",">>) \o Indent(level + 1) \o chunks[i]])
         \o Indent(level) \o <<close>>

\* json.dumps(obj, indent=2, ensure_ascii=False) at a nesting level
RECURSIVE json_dump(_, _)
json_dump(obj, level) ==
    CASE obj.kind = "null" -> <<"n", "u", "l", "l">>
      [] obj.kind = "bool" -> IF obj.b THEN S_true ELSE S_false
      [] obj.kind \in {"int", "float"} -> NumberText(obj)
      [] obj.kind = "str" -> Quoted(obj.s)
      [] obj.kind = "list" ->
            Block("[", [i \in 1..Len(obj.items) |-> json_dump(obj.items[i], level + 1)],
                  "]", level)
      [] obj.kind = "dict" ->
            Block("{", [i \in 1..Len(obj.keys) |->
                           Quoted(KeyText(obj.keys[i])) \o <<":", " ">>
                               \o json_dump(obj.m[obj.keys[i]], level + 1)],
                  "}", level)

\* The decoder.  A scan returns the value read (Malformed when the text is
\* not JSON) and the index of the first character after it.
Malformed == [kind |-> "malformed"]
NoMembers == [k \in {} |-> JNull]

RECURSIVE SkipWs(_, _)
SkipWs(text, i) ==
    IF i <= Len(text) /\ text[i] \in {" ", "\n"} THEN SkipWs(text, i + 1) ELSE i

At(text, i) == IF i <= Len(text) THEN text[i] ELSE "EOF"

\* the string whose opening quote is before index i
RECURSIVE ScanString(_, _, _)
ScanString(text, i, acc) ==
    IF i > Len(text) THEN [v |-> Malformed, i |-> i]
    ELSE IF text[i] = "\"" THEN [v |-> JStr(acc), i |-> i + 1]
    ELSE IF text[i] = "\\"
         THEN IF i = Len(text) THEN [v |-> Malformed, i |-> i]
              ELSE ScanString(text, i + 2,
                              Append(acc, IF text[i + 1] = "n" THEN "\n" ELSE text[i + 1]))
    ELSE ScanString(text, i + 1, Append(acc, text[i]))

\* the end of a run of the characters of a number
RECURSIVE NumberEnd(_, _)
NumberEnd(text, i) ==
    IF i <= Len(text) /\ text[i] \in Digits \cup {"-", "."} THEN NumberEnd(text, i + 1) ELSE i

\* int(integer) or float(integer + frac)
ScanNumber(text, i) ==
    LET j == NumberEnd(text, i)
        tok == SubSeq(text, i, j - 1)
        r == IF \E k \in 1..Len(tok) : tok[k] = "." THEN ParseFloat(tok) ELSE ParseInt(tok)
    IN IF j > i /\ r.ok THEN [v |-> r.v, i |-> j] ELSE [v |-> Malformed, i |-> j]

\* the literal word at index i
ScanWord(text, i, word, v) ==
    IF SubSeq(text, i, i + Len(word) - 1) = word THEN [v |-> v, i |-> i + Len(word)]
    ELSE [v |-> Malformed, i |-> i]

RECURSIVE ScanValue(_, _), ScanElements(_, _, _), ScanMembers(_, _, _, _)
ScanValue(text, at) ==
    LET i == SkipWs(text, at)
        c == At(text, i)
    IN CASE c = "{" ->
                IF At(text, SkipWs(text, i + 1)) = "}"
                THEN [v |-> JDict(<<>>, NoMembers), i |-> SkipWs(text, i + 1) + 1]
                ELSE ScanMembers(text, i + 1, <<>>, NoMembers)
         [] c = "[" ->
                IF At(text, SkipWs(text, i + 1)) = "]"
                THEN [v |-> JList(<<>>), i |-> SkipWs(text, i + 1) + 1]
                ELSE ScanElements(text, i + 1, <<>>)
         [] c = "\"" -> ScanString(text, i + 1, <<>>)
         [] c = "t" -> ScanWord(text, i, S_true, JBool(TRUE))
         [] c = "f" -> ScanWord(text, i, S_false, JBool(FALSE))
         [] c = "n" -> ScanWord(text, i, <<"n", "u", "l", "l">>, JNull)
         [] OTHER -> ScanNumber(text, i)

\* the elements of an array, from the one at index at
ScanElements(text, at, items) ==
    LET e == ScanValue(text, at)
        j == SkipWs(text, e.i)
    IN IF e.v = Malformed THEN e
       ELSE IF At(text, j) = "," THEN ScanElements(text, j + 1, Append(items, e.v))
       ELSE IF At(text, j) = "]" THEN [v |-> JList(Append(items, e.v)), i |-> j + 1]
       ELSE [v |-> Malformed, i |-> j]

\* the members of an object, from the one at index at; a key met again
\* keeps its place and takes the later value
ScanMembers(text, at, keys, m) ==
    LET i == SkipWs(text, at)
        k == IF At(text, i) = "\"" THEN ScanString(text, i + 1, <<>>)
             ELSE [v |-> Malformed, i |-> i]
        colon == SkipWs(text, k.i)
        e == ScanValue(text, colon + 1)
        j == SkipWs(text, e.i)
        key == Join(k.v.s)
        keys2 == IF key \in DOMAIN m THEN keys ELSE Append(keys, key)
        m2 == (key :> e.v) @@ m
    IN IF k.v = Malformed \/ At(text, colon) # ":" THEN [v |-> Malformed, i |-> i]
       ELSE IF e.v = Malformed THEN e
       ELSE IF At(text, j) = "," THEN ScanMembers(text, j + 1, keys2, m2)
       ELSE IF At(text, j) = "}" THEN [v |-> JDict(keys2, m2), i |-> j + 1]
       ELSE [v |-> Malformed, i |-> j]

\* json.load(f): raised for JSONDecodeError (an empty file, text that is not
\* one JSON value)
json_load(content) ==
    IF content.kind # "json" THEN [raised |-> TRUE, tree |-> JNull]
    ELSE LET r == ScanValue(content.cs, 1)
         IN IF r.v = Malformed \/ SkipWs(content.cs, r.i) <= Len(content.cs)
            THEN [raised |-> TRUE, tree |-> JNull]
            ELSE [raised |-> FALSE, tree |-> r.v]

\* A caller that saves a tree and loads it again.  The trees are those
\* the operations hand to save_session: the template's tree after an
\* update_value or an add_list_item.
RoundTripValues ==
    { JStr(<<"x">>), JStr(<<>>), JStr(<<"a", "\"", "b", "\\", "c">>),
      JStr(<<"l", "\n", "m">>), JStr(<<"{", ",", " ", "]">>),
      JInt(800), JInt(0), JInt(-5),
      JFloat(15, 1), JFloat(-25, 2), JFloat(1, 0), JFloat(5, 3),
      JBool(TRUE), JBool(FALSE), JNull,
      JList(<<>>), JList(<<JInt(1), JStr(<<"a">>)>>),
      JDict(<<>>, NoMembers), JDict(<<"nom">>, [nom |-> JList(<<JNull>>)]) }

SavedTrees ==
    {update_value(Template, P_nom0, v).data : v \in RoundTripValues}
        \cup {update_value(Template, P_liste, v).data : v \in RoundTripValues}
        \cup {add_list_item(Template, P_liste, NoTemplate).data, Template}

InitRoundTrip ==
    /\ \E tree \in SavedTrees, old \in {NoFile, JsonText(json_dump(Template, 0))} :
           /\ files = [f \in FileNames |->
                         IF f = TEMPLATE_PATH THEN JsonText(json_dump(Template, 0))
                         ELSE IF f = _get_session_path(SID_1) THEN old
                         ELSE NoFile]
           /\ data = [t \in Threads |-> IF t = Caller THEN tree ELSE JNull]
    /\ lock = [owner |-> NoThread, count |-> 0]
    /\ pc = [t \in Threads |-> "idle"]
    /\ call = [t \in Threads |-> NoCall]
    /\ ret = [t \in Threads |-> NoResult]
    /\ results = [t \in Threads |-> <<>>]
    /\ pre = [t \in Threads |-> NoPre]
    /\ nops = 0
    /\ serial = files
    /\ lastRead = [f \in FileNames |-> NoFile]
    /\ start = [t \in Threads |-> NoPre]
    /\ out = [t \in Threads |-> NoOut]
    /\ monitoring_service = MonitoringService

\* save_session(session_id, data): "with self.lock"
CallSaveSession(t) ==
    /\ pc[t] = "idle"
    /\ nops < MaxRoundTrips
    /\ CanAcquire(t)
    /\ lock' = [owner |-> t, count |-> lock.count + 1]
    /\ call' = [call EXCEPT ![t] = [NoCall EXCEPT !.name = "save_session",
                                                  !.session_id = SID_1]]
    /\ pre' = [pre EXCEPT ![t] = files]
    /\ nops' = nops + 1
    /\ pc' = [pc EXCEPT ![t] = "rt_open"]
    /\ UNCHANGED <<files, data, ret, results, serial, lastRead, start, out, monitoring_service>>

\* save_session: open(session_path, 'w', encoding='utf-8')
SaveOpenText(t) ==
    /\ pc[t] = "rt_open"
    /\ files' = [files EXCEPT ![_get_session_path(call[t].session_id)] = Truncated]
    /\ pc' = [pc EXCEPT ![t] = "rt_dump"]
    /\ UNCHANGED <<lock, call, data, ret, results, pre, nops, serial, lastRead, start, out,
                   monitoring_service>>

\* save_session: json.dump(data, f, indent=2, ensure_ascii=False), the
\* close of the file and the end of "with self.lock"
SaveDumpText(t) ==
    /\ pc[t] = "rt_dump"
    /\ files' = [files EXCEPT ![_get_session_path(call[t].session_id)] =
                     JsonText(json_dump(data[t], 0))]
    /\ lock' = [owner |-> IF lock.count = 1 THEN NoThread ELSE lock.owner,
                count |-> lock.count - 1]
    /\ pc' = [pc EXCEPT ![t] = "rt_saved"]
    /\ UNCHANGED <<call, data, ret, results, pre, nops, serial, lastRead, start, out,
                   monitoring_service>>

\* load_session(session_id): "with self.lock"
CallLoadSessionText(t) ==
    /\ pc[t] = "rt_saved"
    /\ CanAcquire(t)
    /\ lock' = [owner |-> t, count |-> lock.count + 1]
    /\ call' = [call EXCEPT ![t].name = "load_session"]
    /\ pc' = [pc EXCEPT ![t] = "rt_load"]
    /\ UNCHANGED <<files, data, ret, results, pre, nops, serial, lastRead, start, out,
                   monitoring_service>>

\* load_session: the copy of the template when the file does not exist,
\* json.load(f) and the end of "with self.lock"
LoadText(t) ==
    /\ pc[t] = "rt_load"
    /\ LET session_path == _get_session_path(call[t].session_id)
           fs == IF files[session_path] = NoFile
                 THEN [files EXCEPT ![session_path] = files[TEMPLATE_PATH]]
                 ELSE files
       IN /\ files' = fs
          /\ out' = [out EXCEPT ![t] = json_load(fs[session_path])]
    /\ lock' = [owner |-> IF lock.count = 1 THEN NoThread ELSE lock.owner,
                count |-> lock.count - 1]
    /\ pc' = [pc EXCEPT ![t] = "rt_loaded"]
    /\ UNCHANGED <<call, data, ret, results, pre, nops, serial, lastRead, start,
                   monitoring_service>>

\* the caller goes on with the tree that load_session returned
RoundTripReturn(t) ==
    /\ pc[t] = "rt_loaded"
    /\ data' = [data EXCEPT ![t] = IF out[t].raised THEN JNull ELSE out[t].tree]
    /\ out' = [out EXCEPT ![t] = NoOut]
    /\ call' = [call EXCEPT ![t] = NoCall]
    /\ pre' = [pre EXCEPT ![t] = NoPre]
    /\ pc' = [pc EXCEPT ![t] = "idle"]
    /\ UNCHANGED <<files, lock, ret, results, nops, serial, lastRead, start, monitoring_service>>

NextRoundTrip ==
    \/ CallSaveSession(Caller)
    \/ SaveOpenText(Caller)
    \/ SaveDumpText(Caller)
    \/ CallLoadSessionText(Caller)
    \/ LoadText(Caller)
    \/ RoundTripReturn(Caller)

SpecRoundTrip == InitRoundTrip /\ [][NextRoundTrip]_vars

\* One caller that empties the list (an update that stores [] at the path
\* of the list) and adds items to it, with and without item_template.
AddUpdates == { Update(P_liste, JList(<<>>)), Update(P_nom0, V_x) }
ItemTemplates == { ItemNamed(JStr(<<"x">>)), JDict(<<>>, NoMembers), JStr(<<"x">>) }

NextAdd ==
    \/ CallSetValue(Caller, MaxAddOps, ReadSessionIds, AddUpdates)
    \/ CallAddListItem(Caller, MaxAddOps, ReadSessionIds, ReadListPaths)
    \/ CallAddListItemWith(Caller, MaxAddOps, ReadSessionIds, ReadListPaths, ItemTemplates)
    \/ SvLoop(Caller)
    \/ Acquire(Caller)
    \/ Load(Caller)
    \/ Modify(Caller)
    \/ SaveOpen(Caller)
    \/ SaveDump(Caller)
    \/ Release(Caller)

SpecAdd == Init /\ [][NextAdd]_vars

(***************************************************************************)
(* JSONManager of ai_bail_agent (utils/json_manager.py): sessions created  *)
(* from a template with a "_metadata" entry, set_field_value and           *)
(* get_missing_required_fields.  The template is the one of its test       *)
(* suite; the clock of datetime.now() is the count of the operations.      *)
(***************************************************************************)
TestTemplate ==
    JDict(<<"test_section">>,
      [test_section |-> JDict(<<"field1", "field2">>,
          [field1 |-> Field(JStr(<<>>), TRUE, S_texte),
           field2 |-> Field(JStr(<<>>), FALSE, S_nombre)])])

\* datetime.now().isoformat()
IsoFormat(now) == JStr(IntText(now))

\* d[k] = v
DictSet(d, k, v) ==
    JDict(IF k \in DOMAIN d.m THEN d.keys ELSE Append(d.keys, k), (k :> v) @@ d.m)

create_session_json(fs, session_id, now) ==
    LET template_data == fs[TEMPLATE_PATH]
        metadata == JDict(<<"session_id", "created_at", "last_modified",
                            "completion_percentage">>,
                          [session_id |-> JStr(session_id), created_at |-> IsoFormat(now),
                           last_modified |-> IsoFormat(now),
                           completion_percentage |-> JFloat(0, 0)])
    IN [fs EXCEPT ![_get_session_path(session_id)] =
            DictSet(template_data, "_metadata", metadata)]

\* raised: FileNotFoundError
load_session_json(fs, session_id) ==
    LET session_file == _get_session_path(session_id)
    IN [raised |-> fs[session_file] = NoFile, tree |-> fs[session_file]]

save_session_json(fs, session_id, tree, now) ==
    [fs EXCEPT ![_get_session_path(session_id)] =
        IF HasKey(tree, "_metadata")
        THEN [tree EXCEPT !.m["_metadata"] = DictSet(@, "last_modified", IsoFormat(now))]
        ELSE tree]

\* The try block of set_field_value from current on: ok is FALSE when an
\* exception is raised (a step below a value that is not a mapping).
RECURSIVE SetField(_, _, _)
SetField(current, keys, value) ==
    IF ~IsDict(current) THEN [ok |-> FALSE, node |-> current]
    ELSE LET key == Join(keys[1]) IN
         IF Len(keys) = 1
         THEN IF HasKey(current, key) /\ IsDict(current.m[key])
                    /\ HasKey(current.m[key], "valeur")
              THEN [ok |-> TRUE,
                    node |-> DictSet(current, key, DictSet(current.m[key], "valeur", value))]
              ELSE [ok |-> TRUE, node |-> DictSet(current, key, value)]
         ELSE LET made == IF HasKey(current, key) THEN current
                          ELSE DictSet(current, key, JDict(<<>>, NoMembers))
                  below == SetField(made.m[key], Tail(keys), value)
              IN [ok |-> below.ok, node |-> DictSet(made, key, below.node)]

\* ok: the returned bool
set_field_value(fs, session_id, field_path, value, now) ==
    LET l == load_session_json(fs, session_id)
        r == SetField(l.tree, Split(field_path, "."), value)
    IN IF l.raised THEN [raised |-> TRUE, ok |-> FALSE, fs |-> fs]
       ELSE IF r.ok THEN [raised |-> FALSE, ok |-> TRUE,
                          fs |-> save_session_json(fs, session_id, r.node, now)]
       ELSE [raised |-> FALSE, ok |-> FALSE, fs |-> fs]

\* fields.update(more): the entries of more replace those of the same path
RECURSIVE FieldsUpdate(_, _)
FieldsUpdate(fields, more) ==
    IF more = <<>> THEN fields
    ELSE LET e == more[1]
             at == {i \in 1..Len(fields) : fields[i].path = e.path}
         IN FieldsUpdate(IF at = {} THEN Append(fields, e)
                         ELSE [fields EXCEPT ![CHOOSE i \in at : TRUE] = e],
                         Tail(more))

\* get_all_fields_flat that names a Field by the path of its "valeur"
RECURSIVE get_all_fields_flat_valeur(_, _)
get_all_fields_flat_valeur(tree, prefix) ==
    LET RECURSIVE Over(_, _)
        Over(i, fields) ==
            IF i > Len(tree.keys) THEN fields
            ELSE LET key == tree.keys[i]
                     value == tree.m[key]
                     current_path == KeyPath(prefix, key)
                 IN IF KeyText(key)[1] = "_" THEN Over(i + 1, fields)
                    ELSE IF IsDict(value)
                    THEN IF HasKey(value, "valeur") /\ HasKey(value, "requis")
                         THEN Over(i + 1, FieldsUpdate(fields,
                                  <<[path |-> KeyPath(current_path, "valeur"),
                                     value |-> value.m["valeur"],
                                     required |-> value.m["requis"],
                                     type |-> IF HasKey(value, "type") THEN value.m["type"]
                                              ELSE JStr(S_texte)]>>))
                         ELSE Over(i + 1, FieldsUpdate(fields,
                                  get_all_fields_flat_valeur(value, current_path)))
                    ELSE Over(i + 1, fields)
    IN Over(1, <<>>)

\* get_all_fields_flat: the entries of the dict "fields", in order
RECURSIVE get_all_fields_flat(_, _)
get_all_fields_flat(tree, prefix) ==
    LET RECURSIVE Items(_, _)
        \* the list under the key "liste": the fields of its mappings
        Items(value, i) ==
            IF i > Len(value.items) THEN <<>>
            ELSE FieldsUpdate(
                     IF IsDict(value.items[i])
                     THEN get_all_fields_flat(value.items[i],
                                              prefix \o <<"[">> \o IntText(i - 1) \o <<"]">>)
                     ELSE <<>>,
                     Items(value, i + 1))
        RECURSIVE Over(_, _)
        Over(i, fields) ==
            IF i > Len(tree.keys) THEN fields
            ELSE LET key == tree.keys[i]
                     value == tree.m[key]
                     current_path == KeyPath(prefix, key)
                 IN IF KeyText(key)[1] = "_" THEN Over(i + 1, fields)
                    ELSE IF IsDict(value)
                    THEN IF HasKey(value, "valeur") /\ HasKey(value, "requis")
                         THEN Over(i + 1, FieldsUpdate(fields,
                                  <<[path |-> current_path,
                                     value |-> value.m["valeur"],
                                     required |-> value.m["requis"],
                                     type |-> IF HasKey(value, "type") THEN value.m["type"]
                                              ELSE JStr(S_texte)]>>))
                         ELSE Over(i + 1, FieldsUpdate(fields,
                                  get_all_fields_flat(value, current_path)))
                    ELSE IF IsList(value) /\ key = "liste"
                    THEN Over(i + 1, FieldsUpdate(fields, Items(value, 1)))
                    ELSE Over(i + 1, fields)
    IN Over(1, <<>>)

\* the (field_path, type) pairs of "missing"; raised: FileNotFoundError
get_missing_required_fields(fs, session_id) ==
    LET l == load_session_json(fs, session_id)
        all_fields == get_all_fields_flat(l.tree, <<>>)
        keep == {i \in 1..Len(all_fields) :
                    /\ Truthy(all_fields[i].required)
                    /\ all_fields[i].value \in {JNull, JStr(<<>>), JList(<<>>)}}
        RECURSIVE Kept(_)
        Kept(i) == IF i > Len(all_fields) THEN <<>>
                   ELSE (IF i \in keep
                         THEN <<[path |-> all_fields[i].path, type |-> all_fields[i].type]>>
                         ELSE <<>>) \o Kept(i + 1)
    IN IF l.raised THEN [raised |-> TRUE, missing |-> <<>>]
       ELSE [raised |-> FALSE, missing |-> Kept(1)]

P_field1 == <<"t", "e", "s", "t", "_", "s", "e", "c", "t", "i", "o", "n", ".",
              "f", "i", "e", "l", "d", "1">>
P_field2 == <<"t", "e", "s", "t", "_", "s", "e", "c", "t", "i", "o", "n", ".",
              "f", "i", "e", "l", "d", "2">>
S_dot_valeur == <<".", "v", "a", "l", "e", "u", "r">>
FlatUpdates ==
    { Update(P_field1 \o S_dot_valeur, JStr(<<"x">>)), Update(P_field1, JStr(<<"x">>)),
      Update(P_field1, JStr(<<>>)), Update(P_field2, JInt(800)),
      Update(P_field1 \o S_dot_valeur \o <<".", "n", "o", "m">>, JStr(<<"x">>)),
      Update(<<"m", "e", "t", "a", ".", "d", "o", "c">>, JStr(<<"x">>)) }

InitFlat ==
    /\ files = [f \in FileNames |-> IF f = TEMPLATE_PATH THEN TestTemplate ELSE NoFile]
    /\ lock = [owner |-> NoThread, count |-> 0]
    /\ pc = [t \in Threads |-> "idle"]
    /\ call = [t \in Threads |-> NoCall]
    /\ data = [t \in Threads |-> JNull]
    /\ ret = [t \in Threads |-> NoResult]
    /\ results = [t \in Threads |-> <<>>]
    /\ pre = [t \in Threads |-> NoPre]
    /\ nops = 0
    /\ serial = files
    /\ lastRead = [f \in FileNames |-> NoFile]
    /\ start = [t \in Threads |-> NoPre]
    /\ out = [t \in Threads |-> NoOut]
    /\ monitoring_service = MonitoringService

\* json_manager.create_session_json(session_id)
FlatCreateSession(t) ==
    /\ pc[t] = "idle"
    /\ nops < MaxFlatOps
    /\ nops' = nops + 1
    /\ \E session_id \in SessionIds : files' = create_session_json(files, session_id, nops)
    /\ UNCHANGED <<lock, pc, call, data, ret, results, pre, serial, lastRead, start, out,
                   monitoring_service>>

\* json_manager.set_field_value(session_id, field_path, value)
FlatSetFieldValue(t) ==
    /\ pc[t] = "idle"
    /\ nops < MaxFlatOps
    /\ nops' = nops + 1
    /\ \E session_id \in SessionIds, update \in FlatUpdates :
           files' = set_field_value(files, session_id, update.path, update.value, nops).fs
    /\ UNCHANGED <<lock, pc, call, data, ret, results, pre, serial, lastRead, start, out,
                   monitoring_service>>

\* json_manager.get_missing_required_fields(session_id)
FlatGetMissing(t) ==
    /\ pc[t] = "idle"
    /\ nops < MaxFlatOps
    /\ nops' = nops + 1
    /\ \E session_id \in SessionIds :
           /\ call' = [call EXCEPT ![t] =
                          [NoCall EXCEPT !.name = "get_missing_required_fields",
                                         !.session_id = session_id]]
           /\ out' = [out EXCEPT ![t] = get_missing_required_fields(files, session_id)]
    /\ pc' = [pc EXCEPT ![t] = "flat_return"]
    /\ UNCHANGED <<files, lock, data, ret, results, pre, serial, lastRead, start,
                   monitoring_service>>

\* the caller has the list of the missing fields
FlatReturn(t) ==
    /\ pc[t] = "flat_return"
    /\ pc' = [pc EXCEPT ![t] = "idle"]
    /\ call' = [call EXCEPT ![t] = NoCall]
    /\ out' = [out EXCEPT ![t] = NoOut]
    /\ UNCHANGED <<files, lock, data, ret, results, pre, nops, serial, lastRead, start,
                   monitoring_service>>

NextFlat ==
    \/ FlatCreateSession(Caller)
    \/ FlatSetFieldValue(Caller)
    \/ FlatGetMissing(Caller)
    \/ FlatReturn(Caller)

SpecFlat == InitFlat /\ [][NextFlat]_vars

(***************************************************************************)
(* The HTTP app (backend/fastapi_app/main.py): the middleware              *)
(* monitor_requests around the handlers of the routers.  A thread stands   *)
(* for a request in flight; requests interleave at "await call_next".      *)
(***************************************************************************)
S_GET == <<"G", "E", "T">>
S_POST == <<"P", "O", "S", "T">>
R_health == <<"/", "h", "e", "a", "l", "t", "h">>
R_stats == <<"/", "m", "o", "n", "i", "t", "o", "r", "i", "n", "g", "/",
             "s", "t", "a", "t", "s">>
R_bail == <<"/", "b", "a", "i", "l", "/", "u", "1">>
R_none == <<"/", "n", "o", "n", "-", "e", "x", "i", "s", "t", "e", "n", "t", "-",
            "e", "n", "d", "p", "o", "i", "n", "t">>
R_verify == <<"/", "a", "p", "i", "/", "a", "u", "t", "h", "/",
              "v", "e", "r", "i", "f", "y", "-", "a", "d", "m", "i", "n">>

\* The requests: method, path, the status codes of the responses the route
\* gives, and whether its handler can let an exception out (get_bail opens
\* and reads the file it has found).
HttpRequests ==
    { [method |-> S_GET, endpoint |-> R_health, statuses |-> {200}, raises |-> FALSE],
      [method |-> S_GET, endpoint |-> R_stats, statuses |-> {200}, raises |-> FALSE],
      [method |-> S_GET, endpoint |-> R_bail, statuses |-> {200, 404}, raises |-> TRUE],
      [method |-> S_GET, endpoint |-> R_none, statuses |-> {404}, raises |-> FALSE],
      [method |-> S_POST, endpoint |-> R_verify, statuses |-> {200, 401, 422},
       raises |-> FALSE] }

RouteOf(c) == CHOOSE r \in HttpRequests : r.method = c.value.s /\ r.endpoint = c.path

\* process_time = time.time() - start_time, in ticks
ProcessTimes == {1}

\* MonitoringService.get_stats, without the clock (uptime, start_time_iso)
\* and the average
get_stats(self) ==
    [kind |-> "stats", total_requests |-> self.total_requests,
     error_rate_4xx |-> self.error_count_4xx, error_rate_5xx |-> self.error_count_5xx,
     requests_by_endpoint |-> self.requests_by_endpoint]

\* a request arrives: monitor_requests up to "await call_next(request)"
HttpRequest(t) ==
    /\ pc[t] = "idle"
    /\ nops < MaxRequests
    /\ nops' = nops + 1
    /\ \E r \in HttpRequests :
           call' = [call EXCEPT ![t] = [NoCall EXCEPT !.name = "http",
                                                      !.value = JStr(r.method),
                                                      !.path = r.endpoint]]
    /\ pc' = [pc EXCEPT ![t] = "call_next"]
    /\ UNCHANGED <<files, lock, data, ret, results, pre, serial, lastRead, start, out,
                   monitoring_service>>

\* call_next returns the response of the handler
HandlerResponds(t) ==
    /\ pc[t] = "call_next"
    /\ \E status_code \in RouteOf(call[t]).statuses :
           call' = [call EXCEPT ![t].index = status_code]
    /\ out' = [out EXCEPT ![t] = IF call[t].path = R_stats
                                 THEN get_stats(monitoring_service) ELSE @]
    /\ pc' = [pc EXCEPT ![t] = "log_request"]
    /\ UNCHANGED <<files, lock, data, ret, results, pre, nops, serial, lastRead, start,
                   monitoring_service>>

\* the handler raises: the exception leaves "await call_next(request)" and
\* monitor_requests with it
HandlerRaises(t) ==
    /\ pc[t] = "call_next"
    /\ RouteOf(call[t]).raises
    /\ call' = [call EXCEPT ![t] = NoCall]
    /\ pc' = [pc EXCEPT ![t] = "idle"]
    /\ UNCHANGED <<files, lock, data, ret, results, pre, nops, serial, lastRead, start,
                   out, monitoring_service>>

\* monitoring_service.log_request(...) and "return response"
LogRequest(t) ==
    /\ pc[t] = "log_request"
    /\ \E process_time \in ProcessTimes :
           monitoring_service' = log_request(monitoring_service, call[t].path,
                                             call[t].value.s, process_time, call[t].index)
    /\ call' = [call EXCEPT ![t] = NoCall]
    /\ out' = [out EXCEPT ![t] = NoOut]
    /\ pc' = [pc EXCEPT ![t] = "idle"]
    /\ UNCHANGED <<files, lock, data, ret, results, pre, nops, serial, lastRead, start>>

NextHttp ==
    \E t \in Threads :
        \/ HttpRequest(t)
        \/ HandlerResponds(t)
        \/ HandlerRaises(t)
        \/ LogRequest(t)

SpecHttp == Init /\ [][NextHttp]_vars

(***************************************************************************)
(* JsonManager.update_value of ai_bail_agent/agent/json_manager.py.  Its   *)
(* "with self.lock" ends after the load; the navigation, the assignment    *)
(* and the call of save_session come after it.                             *)
(***************************************************************************)
E_ExpectedIndex == "Expected index for list"
E_KeyError == "Key not found -"

\* The loop over keys[:-1]; keys are the parts of path.split('.').  int(key)
\* is modelled on digit strings (the paths of the model have no sign).
RECURSIVE BailNavigate(_, _, _)
BailNavigate(current, keys, loc) ==
    IF keys = <<>> THEN [err |-> "", loc |-> loc, node |-> current]
    ELSE LET key == keys[1] IN
         IF IsList(current) THEN
             IF ~IsDigitStr(key) THEN [err |-> E_ExpectedIndex, loc |-> loc, node |-> current]
             ELSE IF DecVal(key) >= Len(current.items)
                  THEN [err |-> E_IndexError, loc |-> loc, node |-> current]
             ELSE BailNavigate(current.items[DecVal(key) + 1], Tail(keys),
                               Append(loc, IntKey(DecVal(key))))
         ELSE IF IsDict(current) THEN
             IF ~HasKey(current, Join(key))
             THEN [err |-> E_KeyError, loc |-> loc, node |-> current]
             ELSE BailNavigate(current.m[Join(key)], Tail(keys), Append(loc, StrKey(key)))
         \* current[key] on a str, a number or None
         ELSE [err |-> E_TypeError, loc |-> loc, node |-> current]

\* the try block: res is the returned string, data the tree after the
\* assignment, save tells whether save_session is reached
bail_update_value(tree, path, value) ==
    LET keys == Split(path, ".")
        nav == BailNavigate(tree, SubSeq(keys, 1, Len(keys) - 1), <<>>)
        current == nav.node
        last_key == keys[Len(keys)]
        fail(tag) == [res |-> Error(tag), data |-> tree, save |-> FALSE]
        done(new) == [res |-> Done, data |-> new, save |-> TRUE]
    IN IF nav.err # "" THEN fail(nav.err)
       ELSE IF IsList(current) THEN
           IF ~IsDigitStr(last_key) THEN fail(E_ExpectedIndex)
           ELSE IF DecVal(last_key) >= Len(current.items) THEN fail(E_IndexError)
           ELSE done(Assign(tree, Append(nav.loc, IntKey(DecVal(last_key))), value))
       ELSE IF IsDict(current) THEN
           IF ~HasKey(current, Join(last_key)) THEN fail(E_KeyNotFound)
           ELSE done(SetTarget(tree, nav.loc, StrKey(last_key),
                               current.m[Join(last_key)], value))
       ELSE IF current.kind = "str" /\ IsSubstring(last_key, current.s)
            \* target = current[last_key] on a str
            THEN fail(E_TypeError)
       ELSE IF current.kind = "str" THEN fail(E_KeyNotFound)
       \* "last_key not in current" on a number or None
       ELSE fail(E_TypeError)

\* update_value(session_id, path, value)
CallBailUpdateValue(t, budget, sids, upds) ==
    \E session_id \in sids, u \in upds :
        /\ Enter(t, [NoCall EXCEPT !.name = "bail_update_value",
                                   !.session_id = session_id,
                                   !.path = u.path, !.value = u.value], 1, budget)
        /\ pc' = [pc EXCEPT ![t] = "bail_acquire"]

\* with self.lock:
BailAcquire(t) ==
    /\ pc[t] = "bail_acquire"
    /\ CanAcquire(t)
    /\ lock' = [owner |-> t, count |-> lock.count + 1]
    /\ pc' = [pc EXCEPT ![t] = "bail_load"]
    /\ UNCHANGED <<files, call, data, ret, results, pre, nops, serial, lastRead, start,
                   out, monitoring_service>>

\* data = self.load_session(session_id); keys = path.split('.');
\* current = data; and the end of "with self.lock"
BailLoad(t) ==
    /\ pc[t] = "bail_load"
    /\ LET r == load_session(files, call[t].session_id)
       IN /\ files' = r.fs
          /\ data' = [data EXCEPT ![t] = r.tree]
          /\ IF r.raised
             THEN /\ ret' = [ret EXCEPT ![t] = Error("JSONDecodeError")]
                  /\ pc' = [pc EXCEPT ![t] = "bail_return"]
             ELSE /\ ret' = ret
                  /\ pc' = [pc EXCEPT ![t] = "bail_modify"]
    /\ lock' = [owner |-> IF lock.count = 1 THEN NoThread ELSE lock.owner,
                count |-> lock.count - 1]
    /\ UNCHANGED <<call, results, pre, nops, serial, lastRead, start, out,
                   monitoring_service>>

\* the try block up to its return or its call of save_session
BailModify(t) ==
    /\ pc[t] = "bail_modify"
    /\ LET r == bail_update_value(data[t], call[t].path, call[t].value)
       IN /\ data' = [data EXCEPT ![t] = r.data]
          /\ ret' = [ret EXCEPT ![t] = r.res]
          /\ pc' = [pc EXCEPT ![t] = IF r.save THEN "bail_save" ELSE "bail_return"]
    /\ UNCHANGED <<files, lock, call, results, pre, nops, serial, lastRead, start, out,
                   monitoring_service>>

\* save_session: with self.lock, open(session_path, 'w')
BailSaveOpen(t) ==
    /\ pc[t] = "bail_save"
    /\ CanAcquire(t)
    /\ lock' = [owner |-> t, count |-> lock.count + 1]
    /\ files' = [files EXCEPT ![_get_session_path(call[t].session_id)] = Truncated]
    /\ pc' = [pc EXCEPT ![t] = "bail_save_dump"]
    /\ UNCHANGED <<call, data, ret, results, pre, nops, serial, lastRead, start, out,
                   monitoring_service>>

\* save_session: json.dump(data, f), the close of the file and the end of
\* "with self.lock"
BailSaveDump(t) ==
    /\ pc[t] = "bail_save_dump"
    /\ files' = [files EXCEPT ![_get_session_path(call[t].session_id)] = data[t]]
    /\ lock' = [owner |-> IF lock.count = 1 THEN NoThread ELSE lock.owner,
                count |-> lock.count - 1]
    /\ pc' = [pc EXCEPT ![t] = "bail_return"]
    /\ UNCHANGED <<call, data, ret, results, pre, nops, serial, lastRead, start, out,
                   monitoring_service>>

\* the return of update_value; results keeps what each call returned
BailReturn(t) ==
    /\ pc[t] = "bail_return"
    /\ results' = [results EXCEPT
           ![t] = Append(@, [session_id |-> call[t].session_id, path |-> call[t].path,
                             value |-> call[t].value, res |-> ret[t]])]
    /\ call' = [call EXCEPT ![t] = NoCall]
    /\ data' = [data EXCEPT ![t] = JNull]
    /\ ret' = [ret EXCEPT ![t] = NoResult]
    /\ start' = [start EXCEPT ![t] = NoPre]
    /\ pc' = [pc EXCEPT ![t] = "idle"]
    /\ UNCHANGED <<files, lock, pre, nops, serial, lastRead, out, monitoring_service>>

\* the paths of ConcUpdates and one that names no key
BailUpdates == ConcUpdates \cup {Update(P_nokey, V_x)}

NextBail ==
    \E t \in Threads :
        \/ CallBailUpdateValue(t, MaxBailOps, ConcSessionIds, BailUpdates)
        \/ BailAcquire(t)
        \/ BailLoad(t)
        \/ BailModify(t)
        \/ BailSaveOpen(t)
        \/ BailSaveDump(t)
        \/ BailReturn(t)

SpecBail == Init /\ [][NextBail]_vars

(***************************************************************************)
(* SpecClass: one caller whose set_value may carry an object as a value    *)
(* (update.get("value") is passed on unparsed when it is not a str).       *)
(***************************************************************************)
P_item0 == P_liste \o <<".", "0">>
\* the object {"valeur": "x"}: a value key, no required key
ValeurOnly == JDict(<<"valeur">>, [valeur |-> JStr(<<"x">>)])
ClassUpdates == {Update(P_item0, ValeurOnly), Update(P_item0, V_x),
                 Update(P_nom0, V_x), Update(P_montant, V_800)}

NextClass ==
    \/ CallSetValue(Caller, MaxClassOps, ReadSessionIds, ClassUpdates)
    \/ CallAddListItem(Caller, MaxClassOps, ReadSessionIds, ConcListPaths)
    \/ CallGetProgress(Caller, MaxClassOps, ReadSessionIds)
    \/ CallGetMissingFields(Caller, MaxClassOps, ReadSessionIds, Categories)
    \/ CallGetListInfo(Caller, MaxClassOps, ReadSessionIds, ConcListPaths)
    \/ CallGetAllPaths(Caller, MaxClassOps)
    \/ SvLoop(Caller)
    \/ Acquire(Caller)
    \/ Load(Caller)
    \/ Modify(Caller)
    \/ SaveOpen(Caller)
    \/ SaveDump(Caller)
    \/ Release(Caller)
    \/ Compute(Caller)
    \/ Return(Caller)

SpecClass == Init /\ [][NextClass]_vars

(***************************************************************************)
(* SpecLive: threads that call without end, with the acquisitions of the   *)
(* lock that the methods make while their caller holds it: update_value    *)
(* calls load_session and save_session, load_session calls create_session  *)
(* for a session that has no file, create_session calls load_session.      *)
(***************************************************************************)
\* an update that succeeds and one that fails
LiveUpdates == {Update(P_montant, V_800), Update(P_nokey, V_x)}

\* a call of set_value with one update, of load_session, of create_session
\* or of get_progress
LiveCall(t) ==
    /\ pc[t] = "idle"
    /\ \E session_id \in {SID_1} :
           \/ \E u \in LiveUpdates :
                  /\ call' = [call EXCEPT ![t] =
                        [NoCall EXCEPT !.name = "set_value", !.session_id = session_id,
                                       !.updates = <<u>>, !.i = 1]]
                  /\ pc' = [pc EXCEPT ![t] = "sv_loop"]
           \/ \E name \in {"load_session", "create_session", "get_progress"} :
                  /\ call' = [call EXCEPT ![t] =
                        [NoCall EXCEPT !.name = name, !.session_id = session_id]]
                  /\ pc' = [pc EXCEPT ![t] = "acquire"]
    /\ UNCHANGED <<files, lock, data, ret, results, pre, nops, serial, lastRead, start,
                   out, monitoring_service>>

\* the file of the session of SpecLive
LiveFile == _get_session_path(SID_1)

\* The number of "with self.lock" that the load enters below the one of
\* the operation: load_session in update_value and in create_session,
\* create_session and load_session again when the session has no file.
NestedLoads(t) ==
    LET missing == pre[t][LiveFile] = NoFile
    IN CASE IsWrite(call[t]) -> IF missing THEN 3 ELSE 1
         [] call[t].name = "create_session" -> 1
         [] OTHER -> IF missing THEN 2 ELSE 0

\* thread t is at a "with self.lock" of a method called while it holds the lock
AtNestedWith(t) ==
    \/ pc[t] = "load" /\ lock.count < 1 + NestedLoads(t)
    \/ pc[t] = "save_open" /\ lock.count = 1

\* "with self.lock" of a method called while the lock is held
NestedEnter(t) ==
    /\ AtNestedWith(t)
    /\ CanAcquire(t)
    /\ lock' = [owner |-> t, count |-> lock.count + 1]
    /\ UNCHANGED <<files, pc, call, data, ret, results, pre, nops, serial, lastRead,
                   start, out, monitoring_service>>

\* the end of "with self.lock" of a method that was called with the lock held
NestedExit(t) ==
    /\ pc[t] \in {"modify", "release"}
    /\ lock.owner = t /\ lock.count > 1
    /\ lock' = [lock EXCEPT !.count = @ - 1]
    /\ UNCHANGED <<files, pc, call, data, ret, results, pre, nops, serial, lastRead,
                   start, out, monitoring_service>>

\* "with self.lock" of the operation itself
LiveAcquire(t) ==
    /\ pc[t] = "acquire"
    /\ CanAcquire(t)
    /\ lock' = [owner |-> t, count |-> lock.count + 1]
    /\ pre' = [pre EXCEPT ![t] = files]
    /\ pc' = [pc EXCEPT ![t] = "load"]
    /\ UNCHANGED <<files, call, data, ret, results, nops, serial, lastRead, start, out,
                   monitoring_service>>

\* the steps of thread t inside an operation, but the taking of the lock
LiveStep(t) ==
    \/ SvLoop(t)
    \/ pc[t] = "load" /\ lock.count = 1 + NestedLoads(t) /\ Load(t)
    \/ NestedExit(t)
    \/ lock.count = 1 /\ Modify(t)
    \/ lock.count = 2 /\ SaveOpen(t)
    \/ SaveDump(t)
    \/ lock.count = 1 /\ Release(t)
    \/ Compute(t)
    \/ Return(t)

NextLive ==
    \E t \in Threads :
        \/ LiveCall(t)
        \/ LiveAcquire(t)
        \/ NestedEnter(t)
        \/ LiveStep(t)

\* LiveStep(t) is enabled: thread t is inside a call and not at a
\* "with self.lock"
Running(t) == pc[t] \notin {"idle", "acquire"} /\ ~AtNestedWith(t)

\* Weak fairness of LiveStep(t), with its enabling condition written out: a
\* thread that can go on inside its call does go on.  Strong fairness of
\* the taking of the lock: a thread that finds the lock free again and
\* again takes it.
LiveFairness ==
    \A t \in Threads :
        /\ <>[]Running(t) => []<><<LiveStep(t)>>_vars
        /\ SF_vars(LiveAcquire(t))
        /\ SF_vars(NestedEnter(t))

SpecLive == Init /\ [][NextLive]_vars /\ LiveFairness

(***************************************************************************)
(* What the claims speak of.                                               *)
(***************************************************************************)
SessionFile(t) == _get_session_path(call[t].session_id)

\* The JsonManager operation of thread t is about to return ret[t]: its
\* save, if any, is done and it still holds the lock.
Returning(t) == pc[t] = "release"

\* The tree of the session in file system fs: the persisted one, or the
\* template when the session is not persisted yet.
TreeIn(fs, f) == IF fs[f] = NoFile THEN fs[TEMPLATE_PATH] ELSE fs[f]

\* The session's tree when the operation took the lock.
Before(t) == TreeIn(pre[t], SessionFile(t))

Missing == [kind |-> "missing"]

\* The node the steps keys lead to, Missing when they lead nowhere.
RECURSIVE Lookup(_, _)
Lookup(node, keys) ==
    IF keys = <<>> THEN node
    ELSE IF node.kind = "list"
         THEN IF IsIntKey(keys[1]) /\ keys[1].int < Len(node.items)
              THEN Lookup(node.items[keys[1].int + 1], Tail(keys)) ELSE Missing
    ELSE IF node.kind = "dict"
         THEN IF ~IsIntKey(keys[1]) /\ keys[1].str \in DOMAIN node.m
              THEN Lookup(node.m[keys[1].str], Tail(keys)) ELSE Missing
    ELSE Missing

\* Some step of keys addresses a mapping that lacks it.
RECURSIVE MissingKey(_, _)
MissingKey(node, keys) ==
    /\ keys # <<>>
    /\ IF node.kind = "dict"
       THEN \/ IsIntKey(keys[1])
            \/ keys[1].str \notin DOMAIN node.m
            \/ MissingKey(node.m[keys[1].str], Tail(keys))
       ELSE /\ node.kind = "list"
            /\ IsIntKey(keys[1])
            /\ keys[1].int < Len(node.items)
            /\ MissingKey(node.items[keys[1].int + 1], Tail(keys))

\* C1: remove_list_item(L, 0) on a list of one item fails with "Cannot
\* remove the last item" and leaves the persisted tree as it was;
\* remove_list_item(L, 1) on a list of two items succeeds and leaves the
\* first item alone in the list (on which the next removal fails).
C1_LastItemProtected ==
    \A t \in Threads :
        Returning(t) /\ call[t].name = "remove_list_item" =>
            LET keys == _parse_path(call[t].path)
                L == Lookup(Before(t), keys)
            IN /\ (L.kind = "list" /\ Len(L.items) = 1 /\ call[t].index = 0) =>
                      /\ ret[t] = Error(E_LastItem)
                      /\ files[SessionFile(t)] = Before(t)
               /\ (L.kind = "list" /\ Len(L.items) = 2 /\ call[t].index = 1) =>
                      /\ ret[t] = DoneRemoved(1)
                      /\ Lookup(files[SessionFile(t)], keys) = JList(<<L.items[1]>>)

\* a removal at index 0 is refused on a persisted session whose list holds
\* one item, after the caller has made earlier calls
C1_Witness ==
    \E t \in Threads :
        /\ Returning(t) /\ call[t].name = "remove_list_item" /\ call[t].index = 0
        /\ ret[t] = Error(E_LastItem)
        /\ pre[t][SessionFile(t)] # NoFile
        /\ nops >= 3

\* C2: the repeatable list of every persisted session is a list and holds
\* at least one item.
C2_ListNeverEmpty ==
    \A sid \in SessionIds :
        LET tree == files[_get_session_path(sid)]
        IN IsDocument(tree) =>
               LET L == Lookup(tree, _parse_path(P_liste))
               IN L.kind = "list" /\ Len(L.items) >= 1

\* a has the keys, nesting and node kinds of the template node tpl: a
\* Field may differ in its valeur, a list in its length.
RECURSIVE SameShape(_, _)
SameShape(a, tpl) ==
    IF IsFieldObject(tpl)
    THEN /\ a.kind = "dict" /\ a.keys = tpl.keys
         /\ \A k \in DOMAIN tpl.m \ {"valeur"} : a.m[k] = tpl.m[k]
         /\ a.m["valeur"].kind \notin {"dict", "list"}
    ELSE IF tpl.kind = "dict"
    THEN /\ a.kind = "dict" /\ a.keys = tpl.keys
         /\ \A k \in DOMAIN tpl.m : SameShape(a.m[k], tpl.m[k])
    ELSE IF tpl.kind = "list"
    THEN /\ a.kind = "list"
         /\ \A i \in 1..Len(a.items) : SameShape(a.items[i], tpl.items[1])
    ELSE a = tpl

\* C3: every persisted session tree has the shape of the template.
C3_ShapeOfTemplate ==
    \A sid \in SessionIds :
        LET tree == files[_get_session_path(sid)]
        IN IsDocument(tree) => SameShape(tree, Template)

\* C4: an update whose path has a step that the addressed mapping lacks
\* returns the "Key not found" error and leaves the session's tree as it
\* was (the template, for a session not persisted before).
C4_MissingKeyRejected ==
    \A t \in Threads :
        /\ Returning(t) /\ call[t].name = "set_value"
        /\ MissingKey(Before(t), _parse_path(call[t].path))
        => /\ ret[t] = Error(E_KeyNotFound)
           /\ files[SessionFile(t)] = Before(t)

\* such an update returns on a session that was persisted and changed before
C4_Witness ==
    \E t \in Threads :
        /\ Returning(t) /\ call[t].name = "set_value"
        /\ MissingKey(Before(t), _parse_path(call[t].path))
        /\ pre[t][SessionFile(t)] \notin {NoFile, Template}

\* set_many of the specification: the updates one after the other, each on
\* the tree the ones before it left, a failed one leaving the tree as it is.
RECURSIVE SetMany(_, _)
SetMany(tree, updates) ==
    IF updates = <<>> THEN [tree |-> tree, results |-> <<>>]
    ELSE LET u == updates[Len(updates)]
             sofar == SetMany(tree, SubSeq(updates, 1, Len(updates) - 1))
             r == update_value(sofar.tree, u.path, ParseValue(u.value))
         IN IF InvalidUpdate(u)
            THEN [tree |-> sofar.tree,
                  results |-> Append(sofar.results,
                                     [path |-> u.path, res |-> Error(E_InvalidUpdate)])]
            ELSE [tree |-> IF r.res.ok THEN r.data ELSE sofar.tree,
                  results |-> Append(sofar.results, [path |-> u.path, res |-> r.res])]

\* set_value_impl has gone through its updates and returns
SetValueReturns(t) ==
    pc[t] = "sv_loop" /\ call[t].i > Len(call[t].updates)

\* C5: a set_value holds one outcome per update it has gone through, in
\* input order; when it returns, the outcomes and the persisted tree are
\* those of the updates applied one after the other, each failure leaving
\* the earlier writes in place and the later updates to be attempted.
C5_BatchInOrder ==
    \A t \in Threads :
        /\ pc[t] = "sv_loop" => Len(results[t]) = call[t].i - 1
        /\ SetValueReturns(t) =>
              LET f == SessionFile(t)
                  expected == SetMany(TreeIn(start[t], f), call[t].updates)
              IN /\ results[t] = expected.results
                 /\ files[f] = IF \A j \in 1..Len(call[t].updates) :
                                       InvalidUpdate(call[t].updates[j])
                               THEN start[t][f] ELSE expected.tree

\* a set_value returns whose first update failed and whose second one is
\* persisted
C5_Witness ==
    \E t \in Threads :
        /\ SetValueReturns(t) /\ Len(results[t]) = 2
        /\ ~results[t][1].res.ok /\ results[t][2].res.ok
        /\ files[SessionFile(t)] # TreeIn(start[t], SessionFile(t))

\* C6: when a write operation returns, the persisted tree is the modified
\* tree if it reports success, and the tree as it was if it reports an
\* error.
C6_SuccessIffPersisted ==
    \A t \in Threads :
        Returning(t) /\ IsWrite(call[t]) =>
            /\ ret[t].ok => /\ files[SessionFile(t)] = data[t]
                            /\ files[SessionFile(t)] = Body(call[t], Before(t)).data
            /\ ~ret[t].ok => files[SessionFile(t)] = Before(t)

\* a write returns success with a tree that differs from the one before
C6_Witness ==
    \E t \in Threads :
        /\ Returning(t) /\ IsWrite(call[t]) /\ ret[t].ok
        /\ files[SessionFile(t)] # Before(t)

\* the thread is inside "with self.lock" of an operation
InCritical(t) == pc[t] \in {"load", "modify", "save_open", "save_dump", "release"}

\* C7: no two threads are inside an operation at once, and whenever the
\* lock is free the file system is the one that the operations, run whole
\* and alone in the order they took the lock, produce.
C7_Serialized ==
    /\ \A t1, t2 \in Threads : t1 # t2 => ~(InCritical(t1) /\ InCritical(t2))
    /\ lock.owner = NoThread => files = serial

\* the second update of a set_value waits for the lock while another
\* thread, which took it after the first update, is saving
C7_Witness ==
    \E t1, t2 \in Threads :
        /\ t1 # t2
        /\ pc[t1] = "save_dump"
        /\ pc[t2] = "acquire" /\ call[t2].name = "set_value" /\ call[t2].i = 2
        /\ files # start[t2]

\* C8: load_session and create_session return the persisted tree; they
\* leave a persisted tree as it is, write the template where none was, and
\* return what the last such call returned when no save came in between.
C8_LoadIdempotent ==
    \A t \in Threads :
        Returning(t) /\ IsLoad(call[t]) =>
            LET f == SessionFile(t)
            IN /\ ret[t].ok
               /\ data[t] = files[f]
               /\ pre[t][f] # NoFile => files[f] = pre[t][f]
               /\ pre[t][f] = NoFile => files[f] = pre[t][TEMPLATE_PATH]
               /\ lastRead[f] # NoFile => data[t] = lastRead[f]

\* a call made while the session had no file returns after another call
\* has created and returned it
C8_Witness ==
    \E t \in Threads :
        /\ Returning(t) /\ IsLoad(call[t])
        /\ start[t][SessionFile(t)] = NoFile
        /\ lastRead[SessionFile(t)] # NoFile

\* C9: the template file keeps the content it had at start, and an
\* operation on one session leaves the file of every other session id as
\* it was.
C9_Isolation ==
    /\ files[TEMPLATE_PATH] = Template
    /\ \A t \in Threads :
           Returning(t) =>
               \A sid \in AnyIds \ {call[t].session_id} :
                   files[_get_session_path(sid)] = pre[t][_get_session_path(sid)]

\* the Field objects under a node
RECURSIVE FieldsUnder(_)
FieldsUnder(node) ==
    LET RECURSIVE Concat(_, _)
        Concat(nodes, i) == IF i = 0 THEN <<>>
                            ELSE Concat(nodes, i - 1) \o FieldsUnder(nodes[i])
    IN IF IsFieldObject(node) THEN <<node>>
       ELSE IF node.kind = "dict"
            THEN Concat([i \in 1..Len(node.keys) |-> node.m[node.keys[i]]], Len(node.keys))
       ELSE IF node.kind = "list" THEN Concat(node.items, Len(node.items))
       ELSE <<>>

NonFixedFields(node) ==
    Cardinality({i \in 1..Len(FieldsUnder(node)) : ~TypeIs(FieldsUnder(node)[i], S_fixe)})

\* C10: the total and the filled count that get_progress reports for a
\* category count no Field of type fixe.
C10_FixedNotCounted ==
    \A t \in Threads :
        pc[t] = "return" /\ call[t].name = "get_progress" =>
            \A category \in DOMAIN out[t] :
                /\ out[t][category].total <= NonFixedFields(data[t].m[category])
                /\ out[t][category].filled <= NonFixedFields(data[t].m[category])

\* The places of the Field objects under node: each the steps from node.
RECURSIVE FieldLocs(_)
FieldLocs(node) ==
    IF IsFieldObject(node) THEN {<<>>}
    ELSE IF node.kind = "dict"
    THEN UNION {{<<StrKey(KeyText(k))>> \o loc : loc \in FieldLocs(node.m[k])} :
                  k \in DOMAIN node.m}
    ELSE IF node.kind = "list"
    THEN UNION {{<<IntKey(i - 1)>> \o loc : loc \in FieldLocs(node.items[i])} :
                  i \in 1..Len(node.items)}
    ELSE {}

\* A value is empty: null, the empty string or the empty list.
IsEmptyValue(v) == v = JNull \/ v = JStr(<<>>) \/ v = JList(<<>>)

\* The places under node of the required Fields that are not fixed and are
\* empty.
MissingLocs(node) ==
    {loc \in FieldLocs(node) :
        LET f == Lookup(node, loc)
        IN /\ f.m["requis"] = JBool(TRUE)
           /\ ~TypeIs(f, S_fixe)
           /\ IsEmptyValue(f.m["valeur"])}

NonEmptyValues == {JStr(<<"x">>), JInt(800), JBool(FALSE)}

\* The trees that node becomes when each place of locs is given a value of
\* NonEmptyValues.
RECURSIVE FilledAt(_, _)
FilledAt(node, locs) ==
    IF locs = {} THEN {node}
    ELSE LET loc == CHOOSE l \in locs : TRUE
         IN {Assign(n, Append(loc, K_valeur), v) :
                n \in FilledAt(node, locs \ {loc}), v \in NonEmptyValues}

\* get_missing_fields returns for a category of the tree
MissingFieldsReturns(t) ==
    pc[t] = "return" /\ call[t].name = "get_missing_fields" /\ out[t].found

\* C11: on a fresh session get_missing_fields(category) returns, once each,
\* the paths of the required, non-fixed, empty Fields under the category;
\* each path it returns, prefixed with the category, is a path on which
\* set_value succeeds; and on the fresh session with every such Field set
\* to a non-empty value it returns the empty list.
C11_MissingFieldsOfFreshSession ==
    \A t \in Threads :
        MissingFieldsReturns(t) =>
            LET category == call[t].path
                fresh == files[TEMPLATE_PATH].m[Join(category)]
                missing == out[t].missing
                Full(i) == category \o <<".">> \o missing[i]
            IN /\ data[t] = files[TEMPLATE_PATH] =>
                    /\ {_parse_path(missing[i]) : i \in 1..Len(missing)} = MissingLocs(fresh)
                    /\ Len(missing) = Cardinality(MissingLocs(fresh))
               /\ \A i \in 1..Len(missing) :
                      update_value(data[t], Full(i), JStr(<<"x">>)).res = Done
               /\ ( /\ MissingLocs(fresh) # {}
                    /\ data[t].m[Join(category)] \in FilledAt(fresh, MissingLocs(fresh)) )
                  => missing = <<>>

\* get_missing_fields returns the empty list for the category of the list
\* after the Field that was missing in it has been set
C11_Witness ==
    \E t \in Threads :
        /\ MissingFieldsReturns(t) /\ out[t].missing = <<>>
        /\ call[t].path = <<"p", "a", "r", "t", "i", "e", "s">>
        /\ data[t].m["parties"] \in
               FilledAt(files[TEMPLATE_PATH].m["parties"],
                        MissingLocs(files[TEMPLATE_PATH].m["parties"]))

\* The places under node of the required Fields, and of those among them
\* whose value is empty.
RequiredLocs(node) ==
    {loc \in FieldLocs(node) : Lookup(node, loc).m["requis"] = JBool(TRUE)}
EmptyRequiredLocs(node) ==
    {loc \in RequiredLocs(node) : IsEmptyValue(Lookup(node, loc).m["valeur"])}

\* C12: get_missing_fields reports the required Fields whose value is null,
\* "" or [], and get_progress counts as filled the required Fields with any
\* other value.
C12_EmptyListIsEmpty ==
    \A t \in Threads :
        /\ MissingFieldsReturns(t) =>
               {_parse_path(out[t].missing[i]) : i \in 1..Len(out[t].missing)}
                   = EmptyRequiredLocs(data[t].m[Join(call[t].path)])
        /\ pc[t] = "return" /\ call[t].name = "get_progress" =>
               \A category \in DOMAIN out[t] :
                   out[t][category].filled =
                       Cardinality(RequiredLocs(data[t].m[category])
                                   \ EmptyRequiredLocs(data[t].m[category]))

\* copy is item with each Field's valeur replaced by the empty sentinel of
\* its type: the same keys in the same order, the same nesting, the same
\* requis, type and options.
RECURSIVE IsEmptyCopy(_, _)
IsEmptyCopy(copy, item) ==
    IF IsFieldObject(item)
    THEN /\ copy.kind = "dict" /\ copy.keys = item.keys
         /\ \A k \in DOMAIN item.m \ {"valeur"} : copy.m[k] = item.m[k]
         /\ copy.m["valeur"] = IF TypeIs(item, S_booleen) \/ TypeIs(item, S_nombre)
                               THEN JNull ELSE JStr(<<>>)
    ELSE IF item.kind = "dict"
    THEN /\ copy.kind = "dict" /\ copy.keys = item.keys
         /\ \A k \in DOMAIN item.m : IsEmptyCopy(copy.m[k], item.m[k])
    ELSE IF item.kind = "list"
    THEN /\ copy.kind = "list" /\ Len(copy.items) = Len(item.items)
         /\ \A i \in 1..Len(item.items) : IsEmptyCopy(copy.items[i], item.items[i])
    ELSE copy = item

\* add_list_item returns success
AddReturnsDone(t) == Returning(t) /\ call[t].name = "add_list_item" /\ ret[t].ok

\* C13: a successful add_list_item on a non-empty list appends an item that
\* is the first item with every Field emptied to the sentinel of its type,
\* and leaves the items that were there, the first one included, and the
\* rest of the tree as they were.
C13_NewItemIsEmptyCopy ==
    \A t \in Threads :
        AddReturnsDone(t) =>
            LET keys == _parse_path(call[t].path)
                L == Lookup(Before(t), keys)
                after == Lookup(files[SessionFile(t)], keys)
            IN /\ L.kind = "list" /\ Len(L.items) > 0
               /\ after.kind = "list" /\ Len(after.items) = Len(L.items) + 1
               /\ SubSeq(after.items, 1, Len(L.items)) = L.items
               /\ IsEmptyCopy(after.items[Len(after.items)], L.items[1])
               /\ Assign(files[SessionFile(t)], keys, L) = Before(t)

\* an item is added to a list whose first item has its text Field and its
\* boolean Field set
C13_Witness ==
    \E t \in Threads :
        /\ AddReturnsDone(t)
        /\ LET first == Lookup(Before(t), _parse_path(P_nom0 ))
               flag == Lookup(Before(t), _parse_path(P_garant0))
           IN /\ first.m["valeur"] = JStr(<<"x">>)
              /\ flag.m["valeur"] = JBool(TRUE)

\* get_list_items_info returns
ListInfoReturns(t) == pc[t] = "return" /\ call[t].name = "get_list_items_info"

\* C14: a successful add_list_item on a list of n items returns the index n
\* and leaves n + 1 items, the n that were there first; get_list_items_info
\* on a list reports the number of items the persisted list holds, with
\* one block of lines per item.
C14_AddReturnsIndexAndInfoCounts ==
    \A t \in Threads :
        /\ AddReturnsDone(t) =>
               LET keys == _parse_path(call[t].path)
                   n == Len(Lookup(Before(t), keys).items)
                   after == Lookup(files[SessionFile(t)], keys)
               IN /\ ret[t] = DoneAdded(n)
                  /\ Len(after.items) = n + 1
                  /\ SubSeq(after.items, 1, n) = Lookup(Before(t), keys).items
        /\ ListInfoReturns(t) =>
               LET L == Lookup(files[SessionFile(t)], _parse_path(call[t].path))
               IN IF L.kind = "list"
                  THEN /\ out[t].res = Done
                       /\ out[t].count = Len(L.items)
                       /\ Len(out[t].items) = Len(L.items)
                  ELSE ~out[t].res.ok

\* get_list_items_info reports two items, each with an empty nom, after an
\* item was added to the list of one item
C14_Witness ==
    \E t \in Threads :
        /\ ListInfoReturns(t) /\ out[t].res = Done /\ out[t].count = 2
        /\ \A i \in 1..2 : \E j \in 1..Len(out[t].items[i]) :
               out[t].items[i][j].key = "nom" /\ ~out[t].items[i][j].filled

\* remove_list_item returns, called on a path that leads to a list
RemoveReturnsOnList(t) ==
    /\ Returning(t) /\ call[t].name = "remove_list_item"
    /\ Lookup(Before(t), _parse_path(call[t].path)).kind = "list"

\* C15: remove_list_item(L, i) on a list of n > 1 items with 0 <= i < n
\* succeeds, keeps the items before i at their index, moves each later item
\* to the index one lower, and changes nothing outside L; with i outside
\* [0, n) it fails with "Index out of range" and changes nothing.
C15_RemoveShiftsLaterItems ==
    \A t \in Threads :
        RemoveReturnsOnList(t) =>
            LET keys == _parse_path(call[t].path)
                L == Lookup(Before(t), keys)
                n == Len(L.items)
                i == call[t].index
                after == Lookup(files[SessionFile(t)], keys)
            IN /\ (n > 1 /\ 0 <= i /\ i < n) =>
                      /\ ret[t] = DoneRemoved(i)
                      /\ after.kind = "list" /\ Len(after.items) = n - 1
                      /\ \A j \in 1..(n - 1) :
                             after.items[j] = IF j <= i THEN L.items[j] ELSE L.items[j + 1]
                      /\ Assign(files[SessionFile(t)], keys, L) = Before(t)
               /\ (i < 0 \/ i >= n) =>
                      /\ ret[t] = Error(E_IndexRange)
                      /\ files[SessionFile(t)] = Before(t)

\* the first of two different items is removed: the second moves to index 0
C15_Witness ==
    \E t \in Threads :
        /\ RemoveReturnsOnList(t) /\ ret[t] = DoneRemoved(0)
        /\ LET L == Lookup(Before(t), _parse_path(call[t].path))
           IN Len(L.items) = 2 /\ L.items[1] # L.items[2]

\* Paths written with a bracketed index, each with the same path written
\* with a dotted index.
PathPairs == { <<P_nom0b, P_nom0>>, <<P_nom1, P_nom1d>> }

\* The other notation of a path of PathPairs.
Twin(path) ==
    IF \E pair \in PathPairs : pair[1] = path
    THEN (CHOOSE pair \in PathPairs : pair[1] = path)[2]
    ELSE (CHOOSE pair \in PathPairs : pair[2] = path)[1]

\* an update of set_value returns whose path has a twin
TwinUpdateReturns(t) ==
    /\ Returning(t) /\ call[t].name = "set_value"
    /\ \E pair \in PathPairs : call[t].path \in {pair[1], pair[2]}

\* C16: an update whose path names a list index returns what update_value
\* returns for the same path in the other notation on the same tree with
\* the same value, and persists the same tree; on every tree that the calls
\* have left persisted the two notations give the same result.
C16_BracketsAsDots ==
    /\ \A t \in Threads :
           TwinUpdateReturns(t) =>
               LET other == update_value(Before(t), Twin(call[t].path), call[t].value)
               IN /\ ret[t] = other.res
                  /\ files[SessionFile(t)] = IF other.save THEN other.data ELSE Before(t)
    /\ (\A t \in Threads : pc[t] = "idle") =>
           \A sid \in ReadSessionIds, pair \in PathPairs, v \in NonEmptyValues :
               LET tree == files[_get_session_path(sid)]
               IN IsDocument(tree) =>
                      update_value(tree, pair[1], v) = update_value(tree, pair[2], v)

\* an update with a bracketed index is persisted, in a list of two items
C16_Witness ==
    \E t \in Threads :
        /\ Returning(t) /\ call[t].name = "set_value" /\ call[t].path = P_nom1
        /\ ret[t] = Done
        /\ files[SessionFile(t)] # Before(t)

\* an update of set_value returns success on a path that led to a Field
FieldUpdateDone(t) ==
    /\ Returning(t) /\ call[t].name = "set_value" /\ ret[t] = Done
    /\ IsFieldObject(Lookup(Before(t), _parse_path(call[t].path)))

\* C17: a successful update on the path of a Field leaves the Field with
\* the new valeur and with the keys, requis, type and options it had, and
\* leaves the rest of the tree as it was.
C17_OnlyTheFieldValueChanges ==
    \A t \in Threads :
        FieldUpdateDone(t) =>
            LET keys == _parse_path(call[t].path)
                old == Lookup(Before(t), keys)
                new == Lookup(files[SessionFile(t)], keys)
            IN /\ new.kind = "dict" /\ new.keys = old.keys
               /\ \A k \in DOMAIN old.m \ {"valeur"} : new.m[k] = old.m[k]
               /\ new.m["valeur"] = call[t].value
               /\ Assign(files[SessionFile(t)], keys, old) = Before(t)

\* the Field with options of the first item gets a value, in a list of two
\* items
C17_Witness ==
    \E t \in Threads :
        /\ FieldUpdateDone(t) /\ call[t].path = P_mode0
        /\ HasKey(Lookup(Before(t), _parse_path(P_mode0)), "options")
        /\ Len(Lookup(Before(t), _parse_path(P_liste)).items) = 2
        /\ files[SessionFile(t)] # Before(t)

\* an update of set_value returns success with a non-empty value on a
\* Field that was empty, required and not fixed
EmptyFieldFilled(t) ==
    /\ FieldUpdateDone(t)
    /\ LET old == Lookup(Before(t), _parse_path(call[t].path))
       IN /\ old.m["requis"] = JBool(TRUE)
          /\ ~TypeIs(old, S_fixe)
          /\ IsEmptyValue(old.m["valeur"])
    /\ ~IsEmptyValue(call[t].value)

\* C18: such an update adds 1 to the filled count of the Field's category
\* in get_progress and leaves its total and the other categories as they
\* were; the text "800" is stored as the number 800.
C18_FilledGrowsByOne ==
    \A t \in Threads :
        EmptyFieldFilled(t) =>
            LET category == _parse_path(call[t].path)[1].str
                before == get_progress(Before(t))
                after == get_progress(files[SessionFile(t)])
            IN /\ after[category].filled = before[category].filled + 1
               /\ after[category].total = before[category].total
               /\ \A other \in DOMAIN before \ {category} : after[other] = before[other]
               /\ call[t].updates[call[t].i].value = V_800 =>
                      Lookup(files[SessionFile(t)], _parse_path(call[t].path)).m["valeur"]
                          = JInt(800)

\* get_progress returns
ProgressReturns(t) == pc[t] = "return" /\ call[t].name = "get_progress"

\* C19: for a category in which get_progress counts Fields, the percentage
\* is floor(100 * filled / total) with 0 <= filled <= total, and is 100
\* exactly when filled = total; for a category in which it counts none, the
\* percentage is "N/A" and filled = total = 0.
C19_PercentageIsFloor ==
    \A t \in Threads :
        ProgressReturns(t) =>
            \A category \in DOMAIN out[t] :
                LET p == out[t][category]
                IN IF p.na THEN p.filled = 0 /\ p.total = 0
                   ELSE /\ p.total > 0 /\ 0 <= p.filled /\ p.filled <= p.total
                        /\ p.percentage = (100 * p.filled) \div p.total
                        /\ p.percentage = 100 <=> p.filled = p.total

\* get_all_paths returns
AllPathsReturns(t) == pc[t] = "return" /\ call[t].name = "get_all_paths"

\* The file system fs without its session files.
NoSessions(fs) == [f \in DOMAIN fs |-> IF f = TEMPLATE_PATH THEN fs[f] ELSE NoFile]

\* C20: every path of get_all_paths().field_paths leads, in the template, to
\* an object with "valeur" and "requis", and the result is the one computed
\* with no session at all, whatever the sessions hold.
C20_AllPathsFromTemplate ==
    \A t \in Threads :
        AllPathsReturns(t) =>
            /\ ~out[t].raised
            /\ out[t].field_paths # <<>>
            /\ \A i \in 1..Len(out[t].field_paths) :
                   IsFieldObject(Lookup(files[TEMPLATE_PATH],
                                        _parse_path(out[t].field_paths[i])))
            /\ out[t] = get_all_paths(NoSessions(files))

\* get_all_paths returns while session s1 holds a list of two items, one
\* more than the template
C20_Witness ==
    \E t \in Threads :
        /\ AllPathsReturns(t)
        /\ IsDocument(files[_get_session_path(SID_1)])
        /\ Len(Lookup(files[_get_session_path(SID_1)], _parse_path(P_liste)).items) = 2
        /\ Len(Lookup(files[TEMPLATE_PATH], _parse_path(P_liste)).items) = 1

\* What the walk of the steps keys from node meets first: a list with a
\* step that is not an integer, a list with an index outside [0, len), a
\* mapping that lacks the key, a scalar; "Resolved" when every step exists.
RECURSIVE StepKind(_, _)
StepKind(node, keys) ==
    IF keys = <<>> THEN "Resolved"
    ELSE IF node.kind = "list"
         THEN IF ~IsIntKey(keys[1]) THEN "InvalidIndexType"
              ELSE IF keys[1].int >= Len(node.items) THEN "IndexOutOfRange"
              ELSE StepKind(node.items[keys[1].int + 1], Tail(keys))
    ELSE IF node.kind = "dict"
         THEN IF IsIntKey(keys[1]) \/ keys[1].str \notin DOMAIN node.m THEN "KeyNotFound"
              ELSE StepKind(node.m[keys[1].str], Tail(keys))
    ELSE "NotNavigable"

\* The kind of error a returned message tells.
ErrorKind(tag) ==
    CASE tag = E_ExpectedInt -> "InvalidIndexType"
      [] tag = E_ListIndex -> "IndexOutOfRange"
      [] tag = E_KeyNotFound -> "KeyNotFound"
      [] tag \in {E_CannotNavigate, E_TypeError} -> "NotNavigable"
      [] OTHER -> "Other"

\* C21: update_value succeeds exactly when every step of the path exists;
\* otherwise it leaves the persisted tree as it was and returns the error
\* of the kind of the first step that fails: InvalidIndexType, IndexOutOfRange,
\* KeyNotFound or NotNavigable.
C21_ErrorOfMatchingKind ==
    \A t \in Threads :
        Returning(t) /\ call[t].name = "set_value" =>
            LET kind == StepKind(Before(t), _parse_path(call[t].path))
            IN /\ ret[t].ok <=> kind = "Resolved"
               /\ ~ret[t].ok => /\ files[SessionFile(t)] = Before(t)
                                /\ ErrorKind(ret[t].tag) = kind

\* thread t is in get_progress or get_missing_fields
Reads(t) == call[t].name \in {"get_progress", "get_missing_fields"}

\* what the read of thread t computes from tree
ReadOf(t, tree) ==
    IF call[t].name = "get_progress" THEN get_progress(tree)
    ELSE get_missing_fields(tree, call[t].path)

\* The tree a read has loaded is the whole persisted tree of the serial
\* order of the operations; the read computes its result from a document.
SnapshotIsWhole ==
    \A t \in Threads :
        Reads(t) =>
            /\ Returning(t) => /\ ret[t].ok
                               /\ IsDocument(data[t])
                               /\ data[t] = serial[SessionFile(t)]
                               /\ data[t] = files[SessionFile(t)]
            /\ pc[t] = "return" => IsDocument(data[t]) /\ out[t] = ReadOf(t, data[t])

\* Between the load and the return a read keeps the tree it loaded.
SnapshotKept ==
    \A t \in Threads :
        Reads(t) /\ pc[t] \in {"release", "compute"} => data'[t] = data[t]

\* C22: get_progress and get_missing_fields load the tree under the lock:
\* the tree they load is the persisted tree as the writes that took the
\* lock before them, each run whole, leave it, never a half-written file;
\* they keep that tree and compute their result from it, also while a
\* later write is under way.
C22_ReadsSeeWholeWrites == []SnapshotIsWhole /\ [][SnapshotKept]_vars

\* a read returns a result computed on the tree before a write, while that
\* write has truncated the file and not yet dumped the new tree
C22_Witness ==
    \E t, u \in Threads :
        /\ Reads(t) /\ pc[t] = "return"
        /\ pc[u] = "save_dump" /\ files[SessionFile(t)] = Truncated
        /\ data[t] # data[u]

\* thread t has saved a tree and not yet gone on after loading it
Saved(t) == pc[t] \in {"rt_saved", "rt_load", "rt_loaded"}

\* C23: once save_session(id, tree) has returned, the file of the session
\* holds the text of that tree whatever it held before, and load_session(id)
\* returns, without raising, a tree equal to the one saved.
C23_SaveLoadRoundTrip ==
    \A t \in Threads :
        /\ Saved(t) =>
               json_load(files[SessionFile(t)]) = [raised |-> FALSE, tree |-> data[t]]
        /\ pc[t] = "rt_loaded" => out[t] = [raised |-> FALSE, tree |-> data[t]]

\* load_session returns a tree with a string that holds a quote and a
\* backslash, saved over the text of another tree
C23_Witness ==
    \E t \in Threads :
        /\ pc[t] = "rt_loaded"
        /\ pre[t][SessionFile(t)] = JsonText(json_dump(Template, 0))
        /\ data[t] = update_value(Template, P_nom0,
                                  JStr(<<"a", "\"", "b", "\\", "c">>)).data
        /\ out[t].tree = data[t]

\* add_list_item is about to return, and its path led to a list
AddReturnsOnList(t) ==
    /\ Returning(t) /\ call[t].name = "add_list_item"
    /\ Lookup(Before(t), _parse_path(call[t].path)).kind = "list"

\* C24: add_list_item without item_template on an empty list returns
\* "Cannot add item - list is empty and no template provided" and leaves
\* the persisted tree, with its empty list, as it was; with an
\* item_template it appends that very item, to an empty list too, returns
\* its index and changes nothing else.
C24_EmptyListNeedsTemplate ==
    \A t \in Threads :
        AddReturnsOnList(t) =>
            LET keys == _parse_path(call[t].path)
                L == Lookup(Before(t), keys)
                after == files[SessionFile(t)]
            IN /\ (L.items = <<>> /\ call[t].value = NoTemplate) =>
                      /\ ret[t] = Error(E_EmptyList)
                      /\ after = Before(t)
                      /\ Lookup(after, keys).items = <<>>
               /\ call[t].value # NoTemplate =>
                      /\ ret[t] = DoneAdded(Len(L.items))
                      /\ Lookup(after, keys).items = Append(L.items, call[t].value)
                      /\ after = Assign(Before(t), keys,
                                        JList(Append(L.items, call[t].value)))

\* add_list_item without item_template fails on the list that an update
\* has emptied
C24_Witness ==
    \E t \in Threads :
        /\ AddReturnsOnList(t)
        /\ Lookup(Before(t), _parse_path(call[t].path)).items = <<>>
        /\ call[t].value = NoTemplate
        /\ ~ret[t].ok

\* add_list_item with item_template appends to the emptied list
C24_AppendsToEmpty ==
    \E t \in Threads :
        /\ AddReturnsOnList(t)
        /\ Lookup(Before(t), _parse_path(call[t].path)).items = <<>>
        /\ call[t].value # NoTemplate
        /\ ret[t].ok

\* the text of the path of the place loc of a tree without lists
RECURSIVE LocText(_)
LocText(loc) ==
    IF loc = <<>> THEN <<>>
    ELSE IF Len(loc) = 1 THEN loc[1].cs
    ELSE loc[1].cs \o <<".">> \o LocText(Tail(loc))

\* get_missing_required_fields returns for a session just created
MissingOfCreated(t) ==
    /\ pc[t] = "flat_return"
    /\ \E now \in 0..MaxFlatOps :
           files = create_session_json([files EXCEPT ![SessionFile(t)] = NoFile],
                                       call[t].session_id, now)

\* C25: on a session just created get_missing_required_fields returns one
\* entry per required Field whose value is empty, and the path of each
\* entry is the path of the Field followed by ".valeur".
C25_MissingPathsNameValeur ==
    \A t \in Threads :
        MissingOfCreated(t) =>
            LET empty == EmptyRequiredLocs(files[SessionFile(t)])
                missing == out[t].missing
            IN /\ ~out[t].raised
               /\ Len(missing) = Cardinality(empty)
               /\ {missing[i].path : i \in 1..Len(missing)}
                      = {LocText(loc) \o S_dot_valeur : loc \in empty}

\* the sum of the counts of a dict of counters
RECURSIVE SumOfCounts(_)
SumOfCounts(counts) ==
    IF DOMAIN counts = {} THEN 0
    ELSE LET key == CHOOSE k \in DOMAIN counts : TRUE
         IN counts[key] + SumOfCounts([k \in DOMAIN counts \ {key} |-> counts[k]])

CountOf(counts, key) == IF key \in DOMAIN counts THEN counts[key] ELSE 0

\* total_requests is the sum of requests_by_endpoint
RequestsSumUp ==
    monitoring_service.total_requests
        = SumOfCounts(monitoring_service.requests_by_endpoint)

\* A step in which a request ends counts it once, in total_requests, under
\* its "METHOD path" key and, for a status in 400..499, in the 4xx counter;
\* no step decreases a counter.
RequestCountedOnce ==
    LET before == monitoring_service
        after == monitoring_service'
    IN /\ \A t \in Threads :
              (call[t].name = "http" /\ pc'[t] = "idle") =>
                  LET key == call[t].value.s \o <<" ">> \o call[t].path
                  IN /\ after.total_requests = before.total_requests + 1
                     /\ CountOf(after.requests_by_endpoint, key)
                            = CountOf(before.requests_by_endpoint, key) + 1
                     /\ (call[t].index \in 400..499) =>
                            after.error_count_4xx = before.error_count_4xx + 1
       /\ after.total_requests >= before.total_requests
       /\ after.error_count_4xx >= before.error_count_4xx
       /\ \A key \in DOMAIN before.requests_by_endpoint :
              CountOf(after.requests_by_endpoint, key) >= before.requests_by_endpoint[key]

\* C26: every request the app handles adds exactly 1 to total_requests and
\* to the counter of its "METHOD path" key, and 1 to the 4xx counter when
\* its status is in 400..499; total_requests is always the sum of
\* requests_by_endpoint and no counter ever decreases.
C26_EveryRequestCounted == []RequestsSumUp /\ [][RequestCountedOnce]_vars

\* from the load to the return of update_value
InBailUpdate(t) == pc[t] \in {"bail_load", "bail_modify", "bail_save", "bail_save_dump"}

\* the load, the modification and the save of a call are under the lock
BailCriticalSection == \A t \in Threads : InBailUpdate(t) => lock.owner = t

\* once every call has returned, the persisted tree holds the value of
\* every update that returned "Done" (the updates of a path all carry the
\* same value)
BailUpdatesPersisted ==
    (\A t \in Threads : pc[t] = "idle") =>
        \A t \in Threads : \A i \in 1..Len(results[t]) :
            LET r == results[t][i]
            IN r.res.ok =>
                   Lookup(TreeIn(files, _get_session_path(r.session_id)),
                          Append(_parse_path(r.path), K_valeur)) = r.value

\* C27: update_value of ai_bail_agent loads, modifies and saves inside one
\* critical section under the store lock, and the updates of two
\* concurrent calls on different paths of a session are both in the
\* persisted tree.
C27_UpdateIsOneCriticalSection == BailCriticalSection /\ BailUpdatesPersisted

\* set_value on a node that is a Field sets its value key and leaves the
\* node; on any other node it replaces the node
SetValueClassifies(t) ==
    Returning(t) /\ call[t].name = "set_value" /\ ret[t].ok =>
        LET keys == _parse_path(call[t].path)
            target == Lookup(Before(t), keys)
        IN data[t] = IF IsFieldObject(target)
                     THEN Assign(Before(t), Append(keys, K_valeur), call[t].value)
                     ELSE Assign(Before(t), keys, call[t].value)

\* the item add_list_item appends is the first item with its Fields, and
\* nothing else, reset
AddClassifies(t) ==
    AddReturnsDone(t) =>
        LET keys == _parse_path(call[t].path)
            L == Lookup(Before(t), keys)
            after == Lookup(data[t], keys)
        IN IsEmptyCopy(after.items[Len(after.items)], L.items[1])

\* get_progress counts the required Fields; get_missing_fields names
\* required Fields only
ReadsClassify(t) ==
    /\ ProgressReturns(t) =>
           \A category \in DOMAIN out[t] :
               out[t][category].total = Cardinality(RequiredLocs(data[t].m[category]))
    /\ MissingFieldsReturns(t) =>
           {_parse_path(out[t].missing[i]) : i \in 1..Len(out[t].missing)}
               \subseteq RequiredLocs(data[t].m[Join(call[t].path)])
    /\ AllPathsReturns(t) =>
           {_parse_path(out[t].field_paths[i]) : i \in 1..Len(out[t].field_paths)}
               = FieldLocs(files[TEMPLATE_PATH])

\* get_list_info shows as a value line, among the members of an item, the
\* Fields and only them
ListInfoClassifies(t) ==
    ListInfoReturns(t) /\ out[t].res = Done =>
        \A i \in 1..Len(out[t].items) :
            LET item == Lookup(data[t], _parse_path(call[t].path)).items[i]
                lines == out[t].items[i]
            IN \A j \in 1..Len(lines) :
                   (lines[j].depth = 0 /\ ~IsFieldObject(item)) =>
                       (lines[j].head <=> ~IsFieldObject(item.m[lines[j].key]))

\* C28: every operation treats a mapping node as a Field exactly when it
\* has both "valeur" and "requis", and as a container otherwise: set_value,
\* the reset of add_list_item, get_progress, get_missing_fields,
\* get_all_paths and get_list_info.
C28_OneClassification ==
    \A t \in Threads :
        /\ SetValueClassifies(t)
        /\ AddClassifies(t)
        /\ ReadsClassify(t)
        /\ ListInfoClassifies(t)

\* C29: for every category of a session tree, the total minus the filled
\* count of get_progress is the number of paths that get_missing_fields
\* returns for the category.
C29_MissingIsTotalMinusFilled ==
    \A t \in Threads :
        /\ ProgressReturns(t) =>
               \A category \in DOMAIN out[t] :
                   out[t][category].total - out[t][category].filled
                       = Len(get_missing_fields(data[t], KeyText(category)).missing)
        /\ MissingFieldsReturns(t) =>
               LET p == get_progress(data[t])[Join(call[t].path)]
               IN Len(out[t].missing) = p.total - p.filled

\* get_progress returns for a tree whose list holds two items, one of them
\* with its name set: one Field of the category is filled, one is missing
C29_Witness ==
    \E t \in Threads :
        /\ ProgressReturns(t)
        /\ out[t]["parties"].total = 2 /\ out[t]["parties"].filled = 1
        /\ Len(get_missing_fields(data[t], KeyText("parties")).missing) = 1

\* thread t is outside every JsonManager operation
Outside(t) == pc[t] \in {"idle", "sv_loop", "acquire", "compute", "return"}

\* a thread outside the operations does not hold the lock, and the lock is
\* held exactly when its count is positive
LockReleasedAtReturn ==
    /\ \A t \in Threads : Outside(t) => lock.owner # t
    /\ lock.owner = NoThread <=> lock.count = 0

\* thread t is at a "with self.lock" and the lock is not for it to take
Blocked(t) == (pc[t] = "acquire" \/ AtNestedWith(t)) /\ ~CanAcquire(t)

\* while a thread is in a call, some thread in a call is not blocked
NoDeadlock ==
    (\E t \in Threads : pc[t] # "idle") =>
        \E t \in Threads : pc[t] # "idle" /\ ~Blocked(t)

====
